---- MODULE Spec2Model ----
(***************************************************************************)
(* Dialogue Tree Search: the tree arena (backend/core/dts/tree.py), the    *)
(* majority-vote aggregator (aggregator.py), the pruning policy and round  *)
(* loop of DTSEngine (engine.py), the expansion subsystem (simulator.py)   *)
(* and the evaluation subsystem (evaluator.py).                            *)
(*                                                                         *)
(* Scores are on the 0..10 scale of the judges, in whole points; every     *)
(* operation the engine applies to a score is a comparison, a median, a    *)
(* sum or a quotient, all of which are modelled exactly on integers (the   *)
(* mean is kept as a reduced fraction).                                    *)
(***************************************************************************)
EXTENDS Integers, Sequences, FiniteSets, TLC

\* ------------------------------------------------------------------ bounds
\* Longest list of judge scores handed to aggregate_majority_vote.
MaxJudges == 4
\* Largest batch handed to DTSEngine._prune in the pruning specification.
MaxBatch == 3
\* Most nodes of a tree, and most backpropagate calls, in the tree specification.
MaxNodes == 4
MaxCalls == 2
\* nodes of the tree of a run: the intents drawn never make it larger
MaxRunNodes == 3
\* failed or unusable replies of the text-generation capability in one run; an
\* empty list of intents counts as one unless the tree is full
MaxFaults == 1
\* leaves of the round whose remote calls are followed
MaxLeaves == 2
\* the largest max_concurrency drawn
MaxConcurrency == 2
\* _judge_single runs three judges
JudgesPerNode == 3

\* Judge scores and prune thresholds the inputs are drawn from.
ScoreValues == {0, 5, 8}
ThresholdValues == {0, 6, 9}

\* ------------------------------------------------------------ NodeStatus
ACTIVE == "active"
PRUNED == "pruned"
TERMINAL == "terminal"
ERROR == "error"
NodeStatus == {ACTIVE, PRUNED, TERMINAL, ERROR}

\* None where a string is expected, where a node id is expected, where a
\* prune_reason is expected and where a result is expected
None == "None"
NoId == 0 - 1
NoReason == [text |-> "None"]
NoResult == [error |-> "None"]
Raised(e) == [error |-> e]
IsRaised(x) == "error" \in DOMAIN x

VARIABLES
    root_id,      \* DialogueTree.root_id
    nodes,        \* DialogueTree.nodes: id -> DialogueNode
    cfg,          \* DTSConfig of the engine
    pc,           \* position of the operation in progress
    expanded,     \* the batch of the round (list of node ids)
    scores,       \* the score map of the round: id -> AggregatedScore
    survivors,    \* what _prune returned
    agg_in,       \* arguments of aggregate_majority_vote
    agg_out,      \* its result
    bp_calls,     \* history: per target id, how many backpropagate calls and their score sum
    run,          \* locals of DTSEngine.run: round_num, rounds, total_pruned, result, ...
    tasks,        \* the expansion coroutines: node, kind, history, state
    hist,         \* history: which calls failed, for the claims to refer to
    gate,         \* the semaphores of the three components and the calls in flight
    call,         \* one logical remote call under its retry policy
    emit          \* the event callback of the engine and its pending callback tasks

vars == <<root_id, nodes, cfg, pc, expanded, scores, survivors, agg_in, agg_out, bp_calls,
          run, tasks, hist, gate, call, emit>>
runVars == <<run, tasks, hist>>
treeVars == <<root_id, nodes>>
aggVars == <<agg_in, agg_out>>
roundVars == <<expanded, scores, survivors>>

\* ------------------------------------------------------------- sequences
Range(s) == {s[i] : i \in 1..Len(s)}

SeqsUpTo(S, n) == UNION {[1..k -> S] : k \in 0..n}

RECURSIVE Take(_, _)
\* s[:k] of Python, for k >= 0
Take(s, k) == IF k <= 0 \/ s = <<>> THEN <<>> ELSE <<Head(s)>> \o Take(Tail(s), k - 1)

\* F of the value of v, which is computed once
With(v, F(_)) == CHOOSE r \in {F(x) : x \in {v}} : TRUE

RECURSIVE Filter(_, _)
\* [x for x in s if x in keep]
Filter(s, keep) ==
    IF s = <<>> THEN <<>>
    ELSE (IF Head(s) \in keep THEN <<Head(s)>> ELSE <<>>) \o Filter(Tail(s), keep)

RECURSIVE InsertDesc(_, _, _)
\* x goes after every element whose key is >= its own: equal keys keep their order
InsertDesc(x, s, key) ==
    IF s = <<>> THEN <<x>>
    ELSE IF key[Head(s)] >= key[x] THEN <<Head(s)>> \o InsertDesc(x, Tail(s), key)
    ELSE <<x>> \o s

RECURSIVE SortDesc(_, _)
\* sorted(s, key=..., reverse=True): descending and stable; key is a function on Range(s)
SortDesc(s, key) ==
    IF s = <<>> THEN <<>>
    ELSE With(SortDesc(SubSeq(s, 1, Len(s) - 1), key),
              LAMBDA sorted : InsertDesc(s[Len(s)], sorted, key))

\* a judge score that is not a number: float("nan"), which json.loads accepts
NAN == 0 - 3

\* a < b and a >= b on floats: every comparison with NAN is false
Lt(a, b) == a # NAN /\ b # NAN /\ a < b
Ge(a, b) == a # NAN /\ b # NAN /\ a >= b

\* list.sort, first step: the length of the run the list starts with, which
\* is strictly descending when the second element is less than the first
CountRun(s) ==
    IF Len(s) <= 1 THEN Len(s)
    ELSE IF Lt(s[2], s[1])
    THEN CHOOSE k \in 2..Len(s) :
            /\ \A i \in 2..k : Lt(s[i], s[i - 1])
            /\ k < Len(s) => ~Lt(s[k + 1], s[k])
    ELSE CHOOSE k \in 2..Len(s) :
            /\ \A i \in 2..k : ~Lt(s[i], s[i - 1])
            /\ k < Len(s) => Lt(s[k + 1], s[k])

Reversed(s) == [i \in 1..Len(s) |-> s[Len(s) + 1 - i]]

RECURSIVE BinaryPosition(_, _, _, _)
\* list.sort, binary insertion: the number of elements of a the pivot goes after
BinaryPosition(pivot, a, l, r) ==
    IF l >= r THEN l
    ELSE LET p == (l + r) \div 2
         IN  IF Lt(pivot, a[p + 1]) THEN BinaryPosition(pivot, a, l, p)
             ELSE BinaryPosition(pivot, a, p + 1, r)

RECURSIVE BinarySort(_, _)
BinarySort(a, rest) ==
    IF rest = <<>> THEN a
    ELSE With(BinaryPosition(Head(rest), a, 0, Len(a)),
              LAMBDA l : BinarySort(SubSeq(a, 1, l) \o <<Head(rest)>> \o SubSeq(a, l + 1, Len(a)),
                                    Tail(rest)))

\* sorted(s) on floats, as list.sort orders a short list: the leading run,
\* reversed when it descends, then binary insertion of the rest with <
Sorted(s) ==
    With(CountRun(s),
         LAMBDA k : BinarySort(IF Len(s) >= 2 /\ Lt(s[2], s[1])
                               THEN Reversed(SubSeq(s, 1, k)) ELSE SubSeq(s, 1, k),
                               SubSeq(s, k + 1, Len(s))))

\* -------------------------------------------------------- AggregatedScore
\* The pydantic constructor: individual_scores has min_length = max_length = 3
\* and pass_votes lies in 0..3; anything else is a ValidationError.
AggregatedScore(individual_scores, aggregated_score, pass_threshold, pass_votes, passed) ==
    IF Len(individual_scores) # 3 \/ pass_votes \notin 0..3
    THEN Raised("ValidationError")
    ELSE [individual_scores |-> individual_scores,
          aggregated_score |-> aggregated_score,
          pass_threshold |-> pass_threshold,
          pass_votes |-> pass_votes,
          passed |-> passed]

AggregatedScoreZero(threshold) == AggregatedScore(<<0, 0, 0>>, 0, threshold, 0, FALSE)

\* sum(1 for s in scores if s >= pass_threshold)
PassVotes(s, pass_threshold) == Cardinality({i \in 1..Len(s) : Ge(s[i], pass_threshold)})

\* a slip: the middle element of the list as given, not of the sorted list
aggregate_unsorted(s, pass_threshold) ==
    IF Len(s) # 3 THEN Raised("ValueError")
    ELSE AggregatedScore(s, s[2], pass_threshold,
                         PassVotes(s, pass_threshold),
                         PassVotes(s, pass_threshold) >= 2)

aggregate_majority_vote(s, pass_threshold) ==
    IF Len(s) # 3 THEN Raised("ValueError")
    ELSE AggregatedScore(s, Sorted(s)[2], pass_threshold,
                         PassVotes(s, pass_threshold),
                         PassVotes(s, pass_threshold) >= 2)

\* ------------------------------------------------------------ DialogueNode
DialogueNode(parent_id, depth, strategy, user_intent, messages) ==
    [parent_id |-> parent_id,
     children |-> <<>>,
     depth |-> depth,
     status |-> ACTIVE,
     strategy |-> strategy,
     user_intent |-> user_intent,
     messages |-> messages,
     visits |-> 0,
     value_sum |-> 0,
     value_mean |-> <<0, 1>>,
     aggregated_score |-> 0,
     prune_reason |-> NoReason]

\* ------------------------------------------------------------ DialogueTree
\* generate_node_id(): an id no node of the tree has
generate_node_id(ns) == (CHOOSE m \in DOMAIN ns : \A i \in DOMAIN ns : i <= m) + 1

\* DialogueTree.create(root_node)
TreeCreate(id, root_node) == id :> root_node

\* a slip: the child is stored but never linked into its parent's children
add_child_unlinked(ns, parent_id, id, child) ==
    [i \in DOMAIN ns \cup {id} |->
        IF i = id
        THEN [child EXCEPT !.parent_id = parent_id, !.depth = ns[parent_id].depth + 1]
        ELSE ns[i]]

\* DialogueTree.add_child(parent_id, child), child.id = id
add_child(ns, parent_id, id, child) ==
    [i \in DOMAIN ns \cup {id} |->
        IF i = id
        THEN [child EXCEPT !.parent_id = parent_id, !.depth = ns[parent_id].depth + 1]
        ELSE IF i = parent_id THEN [ns[i] EXCEPT !.children = Append(@, id)]
        ELSE ns[i]]

RECURSIVE GCD(_, _)
GCD(a, b) == IF b = 0 THEN a ELSE GCD(b, a % b)

\* value_sum / visits as a reduced fraction
Quotient(a, b) == IF a = 0 THEN <<0, 1>> ELSE <<a \div GCD(a, b), b \div GCD(a, b)>>

RECURSIVE backpropagate_short(_, _, _)
\* a slip: the walk stops below the root (while node.parent_id is not None)
backpropagate_short(ns, node_id, score) ==
    IF node_id = NoId \/ ns[node_id].parent_id = NoId THEN ns
    ELSE LET node == ns[node_id]
         IN  With([ns EXCEPT ![node_id] =
                     [node EXCEPT !.visits = node.visits + 1,
                                  !.value_sum = node.value_sum + score,
                                  !.value_mean = Quotient(node.value_sum + score,
                                                          node.visits + 1)]],
                  LAMBDA updated : backpropagate_short(updated, node.parent_id, score))

RECURSIVE backpropagate(_, _, _)
\* DialogueTree.backpropagate(node_id, score): the walk from node_id to the root
backpropagate(ns, node_id, score) ==
    IF node_id = NoId THEN ns
    ELSE LET node == ns[node_id]
         IN  With([ns EXCEPT ![node_id] =
                     [node EXCEPT !.visits = node.visits + 1,
                                  !.value_sum = node.value_sum + score,
                                  !.value_mean = Quotient(node.value_sum + score,
                                                          node.visits + 1)]],
                  LAMBDA updated : backpropagate(updated, node.parent_id, score))

\* DialogueTree.active_leaves(), in the order of the node map (insertion order)
ActiveLeafIds(ns) == {i \in DOMAIN ns : ns[i].status = ACTIVE /\ Len(ns[i].children) = 0}

RECURSIVE PathToRoot(_, _, _)
\* DialogueTree.path_to_root(node_id), cut after fuel nodes
PathToRoot(ns, node_id, fuel) ==
    IF node_id = NoId \/ node_id \notin DOMAIN ns \/ fuel = 0 THEN <<>>
    ELSE <<node_id>> \o PathToRoot(ns, ns[node_id].parent_id, fuel - 1)

\* ---------------------------------------------------------- DTSEngine._prune
ScoreOf(id, sc) == sc[id].aggregated_score

\* scores.get(n.id, AggregatedScore.zero(threshold)).aggregated_score
ScoreOrZero(id, sc, c) ==
    IF id \in DOMAIN sc THEN sc[id].aggregated_score
    ELSE AggregatedScoreZero(c.prune_threshold).aggregated_score

ThresholdFilter(batch, sc, c) ==
    Filter(batch, {id \in Range(batch) :
                      id \in DOMAIN sc /\ Ge(ScoreOf(id, sc), c.prune_threshold)})

\* a slip: the cap is never applied
TopKCapOff(surv, sc, c) == surv

\* a slip: the cap cuts the list as it stands, without the sort by score
TopKCapUnsorted(surv, sc, c) ==
    IF c.keep_top_k # 0 /\ Len(surv) > c.keep_top_k THEN Take(surv, c.keep_top_k) ELSE surv

\* keep_top_k is None or 0: the cap is off (both are falsy)
TopKCap(surv, sc, c) ==
    LET key == [id \in Range(surv) |-> ScoreOf(id, sc)]
    IN  IF c.keep_top_k # 0 /\ Len(surv) > c.keep_top_k
        THEN Take(SortDesc(surv, key), c.keep_top_k)
        ELSE surv

\* a slip: the backfill ranks the threshold survivors instead of the full batch
MinSurvivorsOfSurvivors(surv, batch, sc, c) ==
    LET key == [id \in Range(surv) |-> ScoreOrZero(id, sc, c)]
    IN  IF Len(surv) < c.min_survivors
        THEN Take(SortDesc(surv, key), c.min_survivors)
        ELSE surv

MinSurvivors(surv, batch, sc, c) ==
    LET key == [id \in Range(batch) |-> ScoreOrZero(id, sc, c)]
    IN  IF Len(surv) < c.min_survivors
        THEN Take(SortDesc(batch, key), c.min_survivors)
        ELSE surv

PruneSurvivors(batch, sc, c) ==
    IF batch = <<>> THEN <<>>
    ELSE MinSurvivors(TopKCap(ThresholdFilter(batch, sc, c), sc, c), batch, sc, c)

PruneReason(id, sc, c) ==
    IF id \in DOMAIN sc
    THEN [text |-> "score < threshold", score |-> ScoreOf(id, sc),
          threshold |-> c.prune_threshold]
    ELSE [text |-> "scoring failed"]

\* _prune without "Mark pruned": the survivors are returned, no node is marked
PruneMarkNothing(ns, batch, surv, sc, c) == ns

\* a slip: the 0 an unscored node is ranked with is also written to the node
PruneMarkWritingZero(ns, batch, surv, sc, c) ==
    [id \in DOMAIN ns |->
        IF id \in Range(batch) /\ id \notin Range(surv)
        THEN [ns[id] EXCEPT !.status = PRUNED, !.prune_reason = PruneReason(id, sc, c),
                            !.aggregated_score = ScoreOrZero(id, sc, c)]
        ELSE ns[id]]

\* the nodes after "Mark pruned"
PruneMark(ns, batch, surv, sc, c) ==
    [id \in DOMAIN ns |->
        IF id \in Range(batch) /\ id \notin Range(surv)
        THEN [ns[id] EXCEPT !.status = PRUNED, !.prune_reason = PruneReason(id, sc, c)]
        ELSE ns[id]]

RECURSIVE BackpropagateActive(_, _, _)
\* a slip: the score of a batch node that ended in ERROR is not propagated
BackpropagateActive(ns, batch, sc) ==
    IF batch = <<>> THEN ns
    ELSE With(IF Head(batch) \in DOMAIN sc /\ ns[Head(batch)].status # ERROR
              THEN backpropagate(ns, Head(batch), ScoreOf(Head(batch), sc))
              ELSE ns,
              LAMBDA updated : BackpropagateActive(updated, Tail(batch), sc))

RECURSIVE BackpropagateAll(_, _, _)
\* DTSEngine.run, "Backpropagate": every batch node that has a score, in batch order
BackpropagateAll(ns, batch, sc) ==
    IF batch = <<>> THEN ns
    ELSE With(IF Head(batch) \in DOMAIN sc
              THEN backpropagate(ns, Head(batch), ScoreOf(Head(batch), sc))
              ELSE ns,
              LAMBDA updated : BackpropagateAll(updated, Tail(batch), sc))

\* ---------------------------------------------------- TrajectoryEvaluator
\* the AggregatedScore a comparative ranking entry is turned into
RankedScore(score, prune_threshold) ==
    AggregatedScore(<<score, score, score>>, score, prune_threshold,
                    IF score >= prune_threshold THEN 3 ELSE 0,
                    score >= prune_threshold)

\* ============================================================================
\* Specification of the aggregator: the arguments are drawn in Init.
\* ============================================================================
IdleTree == /\ root_id = 0
            /\ nodes = TreeCreate(0, DialogueNode(NoId, 0, None, None, <<"U">>))

\* The configuration the pruning and tree specifications start from; the run
\* specification draws scoring_mode and user_variability.
BaseConfig ==
    [prune_threshold |-> 6, keep_top_k |-> 0, min_survivors |-> 1,
     scoring_mode |-> "comparative", user_variability |-> FALSE,
     user_intents_per_branch |-> 2, turns_per_branch |-> 1, max_concurrency |-> 1]

IdleCfg == cfg = BaseConfig

IdleRun ==
    /\ run = [round_num |-> 0, rounds |-> 0, total_pruned |-> 0, result |-> NoResult,
              forked |-> FALSE, expandable |-> <<>>, judging |-> <<>>, results |-> <<>>]
    /\ tasks = <<>>
    /\ hist = [call_failed |-> {}, rank_raised |-> {}, unranked |-> <<>>, timed_out |-> {},
               faults |-> 0]

IdleGate == gate = [sem |-> [k \in {"generator", "simulator", "evaluator"} |->
                                BaseConfig.max_concurrency],
                    calls |-> <<>>]

IdleCall == call = [site |-> None, state |-> "idle"]

IdleEmit == emit = [callback |-> None, pending |-> <<>>, warned |-> FALSE]

IdleRound == expanded = <<>> /\ scores = <<>> /\ survivors = <<>>

IdleAgg == agg_in = [scores |-> <<>>, pass_threshold |-> 0] /\ agg_out = NoResult

NoCalls(ns) == [i \in DOMAIN ns |-> [n |-> 0, sum |-> 0]]

InitAgg ==
    /\ IdleTree /\ IdleCfg /\ IdleRound /\ IdleRun /\ IdleGate /\ IdleCall /\ IdleEmit
    /\ pc = "call"
    /\ agg_in \in [scores : SeqsUpTo(ScoreValues, MaxJudges), pass_threshold : ThresholdValues]
    /\ agg_out = NoResult
    /\ bp_calls = NoCalls(nodes)

Aggregate ==
    /\ pc = "call"
    /\ agg_out' = aggregate_majority_vote(agg_in.scores, agg_in.pass_threshold)
    /\ pc' = "returned"
    /\ UNCHANGED <<treeVars, cfg, roundVars, agg_in, bp_calls, runVars, gate, call, emit>>

NextAgg == Aggregate

SpecAgg == InitAgg /\ [][NextAgg]_vars

\* C2: aggregate_majority_vote on exactly three scores returns the middle score,
\* pass_votes = the number of scores >= pass_threshold and passed <=> pass_votes >= 2;
\* on any other number of scores it fails and returns no AggregatedScore.
IsMiddle(m, s) ==
    /\ m \in Range(s)
    /\ Cardinality({i \in 1..Len(s) : s[i] <= m}) >= 2
    /\ Cardinality({i \in 1..Len(s) : s[i] >= m}) >= 2

MajorityVoteContract ==
    pc = "returned" =>
        IF Len(agg_in.scores) = 3
        THEN /\ ~IsRaised(agg_out)
             /\ agg_out.individual_scores = agg_in.scores
             /\ IsMiddle(agg_out.aggregated_score, agg_in.scores)
             /\ agg_out.pass_votes =
                    Cardinality({i \in 1..3 : agg_in.scores[i] >= agg_in.pass_threshold})
             /\ agg_out.passed = (agg_out.pass_votes >= 2)
        ELSE agg_out = Raised("ValueError")

MajorityVoteWitness ==
    /\ pc = "returned"
    /\ agg_in = [scores |-> <<8, 0, 5>>, pass_threshold |-> 6]
    /\ agg_out.aggregated_score = 5
    /\ agg_out.pass_votes = 1
    /\ ~agg_out.passed

\* ============================================================================
\* Specification of the tree: add_child with fresh ids and backpropagate calls.
\* ============================================================================
InitTree ==
    /\ IdleTree /\ IdleCfg /\ IdleRound /\ IdleAgg /\ IdleRun /\ IdleGate /\ IdleCall /\ IdleEmit
    /\ pc = "tree"
    /\ bp_calls = NoCalls(nodes)

\* the child the caller builds: _initialize_tree under the root, a fork elsewhere
NewChild(ns, parent_id) ==
    IF parent_id = root_id
    THEN DialogueNode(NoId, 0, "S", None, <<"U">>)
    ELSE DialogueNode(parent_id, ns[parent_id].depth + 1, ns[parent_id].strategy, "I",
                      ns[parent_id].messages)

TreeAddChild ==
    /\ pc = "tree"
    /\ Cardinality(DOMAIN nodes) < MaxNodes
    /\ \E parent_id \in DOMAIN nodes :
         LET id == generate_node_id(nodes)
         IN  /\ nodes' = add_child(nodes, parent_id, id, NewChild(nodes, parent_id))
             /\ bp_calls' = (id :> [n |-> 0, sum |-> 0]) @@ bp_calls
    /\ UNCHANGED <<root_id, cfg, pc, roundVars, aggVars, runVars, gate, call, emit>>

RECURSIVE SumOver(_, _)
SumOver(S, f) ==
    IF S = {} THEN 0 ELSE LET x == CHOOSE y \in S : TRUE IN f[x] + SumOver(S \ {x}, f)

CallsMade == SumOver(DOMAIN bp_calls, [i \in DOMAIN bp_calls |-> bp_calls[i].n])

TreeBackpropagate ==
    /\ pc = "tree"
    /\ CallsMade < MaxCalls
    /\ \E node_id \in DOMAIN nodes, score \in ScoreValues :
         /\ nodes' = backpropagate(nodes, node_id, score)
         /\ bp_calls' = [bp_calls EXCEPT ![node_id] =
                            [n |-> @.n + 1, sum |-> @.sum + score]]
    /\ UNCHANGED <<root_id, cfg, pc, roundVars, aggVars, runVars, gate, call, emit>>

NextTree == TreeAddChild \/ TreeBackpropagate

SpecTree == InitTree /\ [][NextTree]_vars

\* C4: every non-root node's parent_id names a node whose children hold the node's
\* id exactly once, its depth is its parent's plus one, and following parent_id
\* from any node reaches the root without revisiting a node.
Occurrences(s, x) == Cardinality({i \in 1..Len(s) : s[i] = x})

NoRepeat(s) == \A i, j \in 1..Len(s) : s[i] = s[j] => i = j

TreeStructure ==
    /\ root_id \in DOMAIN nodes
    /\ \A id \in DOMAIN nodes \ {root_id} :
         /\ nodes[id].parent_id \in DOMAIN nodes
         /\ Occurrences(nodes[nodes[id].parent_id].children, id) = 1
         /\ nodes[id].depth = nodes[nodes[id].parent_id].depth + 1
    /\ \A id \in DOMAIN nodes :
         LET path == PathToRoot(nodes, id, Cardinality(DOMAIN nodes) + 1)
         IN  /\ Len(path) <= Cardinality(DOMAIN nodes)
             /\ path[Len(path)] = root_id
             /\ nodes[path[Len(path)]].parent_id = NoId
             /\ NoRepeat(path)

TreeStructureWitness ==
    /\ pc = "tree"
    /\ Len(nodes[root_id].children) = 2
    /\ \E id \in DOMAIN nodes : nodes[id].depth = 2 /\ nodes[id].user_intent = "I"

\* C9: after any sequence of backpropagate calls every node's visits is the number
\* of calls whose target lies in its subtree, its value_sum the sum of their scores
\* and value_mean = value_sum / visits; a call changes no node off the path from
\* its target to the root. The stats depend on the calls made, not on their order.
Subtree(ns, id) ==
    {i \in DOMAIN ns : id \in Range(PathToRoot(ns, i, Cardinality(DOMAIN ns)))}

BackpropStats ==
    \A id \in DOMAIN nodes :
        LET sub == Subtree(nodes, id)
        IN  /\ nodes[id].visits = SumOver(sub, [i \in sub |-> bp_calls[i].n])
            /\ nodes[id].value_sum = SumOver(sub, [i \in sub |-> bp_calls[i].sum])
            /\ nodes[id].visits > 0 =>
                   nodes[id].value_mean[1] * nodes[id].visits
                       = nodes[id].value_sum * nodes[id].value_mean[2]

BackpropFrame ==
    \A t \in DOMAIN nodes :
        bp_calls'[t].n = bp_calls[t].n + 1 =>
            \A i \in DOMAIN nodes :
                i \notin Range(PathToRoot(nodes, t, Cardinality(DOMAIN nodes))) =>
                    nodes'[i] = nodes[i]

BackpropAdditive == []BackpropStats /\ [][BackpropFrame]_vars

BackpropWitness ==
    /\ pc = "tree"
    /\ \E a, b \in DOMAIN nodes \ {root_id} :
         /\ a # b
         /\ bp_calls[a] = [n |-> 1, sum |-> 8]
         /\ bp_calls[b] = [n |-> 1, sum |-> 5]
         /\ nodes[b].parent_id = a
         /\ nodes[a].visits = 2 /\ nodes[a].value_sum = 13 /\ nodes[a].value_mean = <<13, 2>>
         /\ nodes[root_id].visits = 2
         /\ \E c \in DOMAIN nodes : nodes[c].visits = 0

\* ============================================================================
\* Specification of the prune step: the configuration, the batch of one round
\* of linear expansion under the root and its score map are drawn in Init.
\* ============================================================================
RECURSIVE StrategyTree(_)
\* the tree _initialize_tree builds from n strategies: root 0, children 1..n
StrategyTree(n) ==
    IF n = 0 THEN TreeCreate(0, DialogueNode(NoId, 0, None, None, <<"U">>))
    ELSE add_child(StrategyTree(n - 1), 0, n, DialogueNode(NoId, 0, "S", None, <<"U">>))

\* a batch node as the turn loop leaves it
AfterTurns(node, status) ==
    IF status = TERMINAL
    THEN [node EXCEPT !.status = TERMINAL, !.messages = <<"U", "bye">>]
    ELSE IF status = ERROR
    THEN [node EXCEPT !.status = ERROR, !.messages = <<"U", "u">>,
                      !.prune_reason = [text |-> "empty assistant response after retries"]]
    ELSE [node EXCEPT !.messages = <<"U", "u", "a">>]

Ids(n) == [i \in 1..n |-> i]

InitPrune ==
    /\ IdleAgg /\ IdleRun /\ IdleGate /\ IdleCall /\ IdleEmit
    /\ pc = "prune"
    /\ root_id = 0
    /\ \E t \in ThresholdValues, k \in 0..MaxBatch, m \in 0..MaxBatch :
         cfg = [BaseConfig EXCEPT !.prune_threshold = t, !.keep_top_k = k,
                                  !.min_survivors = m]
    /\ \E n \in 0..MaxBatch :
         \E st \in [1..n -> {ACTIVE, TERMINAL, ERROR}], sv \in [1..n -> ScoreValues \cup {NoId}] :
            /\ Cardinality({i \in 1..n : st[i] # ACTIVE}) <= 1
            /\ expanded = Ids(n)
            /\ scores = [i \in {j \in 1..n : sv[j] # NoId} |->
                            RankedScore(sv[i], cfg.prune_threshold)]
            /\ nodes = BackpropagateAll(
                          [i \in 0..n |->
                              IF i = 0 THEN StrategyTree(n)[i]
                              ELSE [AfterTurns(StrategyTree(n)[i], st[i]) EXCEPT
                                       !.aggregated_score =
                                            IF sv[i] # NoId THEN sv[i] ELSE @]],
                          expanded, scores)
    /\ survivors = <<>>
    /\ bp_calls = [i \in DOMAIN nodes |->
                      IF i \in DOMAIN scores
                      THEN [n |-> 1, sum |-> scores[i].aggregated_score]
                      ELSE [n |-> 0, sum |-> 0]]

\* DTSEngine._prune(expanded, scores)
Prune ==
    /\ pc = "prune"
    /\ survivors' = PruneSurvivors(expanded, scores, cfg)
    /\ nodes' = PruneMark(nodes, expanded, PruneSurvivors(expanded, scores, cfg), scores, cfg)
    /\ pc' = "pruned"
    /\ UNCHANGED <<root_id, cfg, expanded, scores, aggVars, bp_calls, runVars, gate, call, emit>>

NextPrune == Prune

SpecPrune == InitPrune /\ [][NextPrune]_vars

Min(a, b) == IF a <= b THEN a ELSE b
Max(a, b) == IF a >= b THEN a ELSE b

\* C1: for every batch and every score map, also one that lacks batch nodes,
\* _prune returns at least min(min_survivors, |batch|) survivors.
PruneKeepsMinSurvivors ==
    pc = "pruned" => Len(survivors) >= Min(cfg.min_survivors, Len(expanded))

\* the backfill case: nothing reaches the threshold and a node has no score
PruneBackfillWitness ==
    /\ pc = "pruned"
    /\ Len(expanded) = 3
    /\ cfg.min_survivors = 2
    /\ ThresholdFilter(expanded, scores, cfg) = <<>>
    /\ \E id \in Range(expanded) : id \notin DOMAIN scores
    /\ Len(survivors) = 2
    /\ \E id \in Range(expanded) : nodes[id].status = PRUNED

\* C10 as stated: with keep_top_k = K configured at most K nodes survive, for
\* every min_survivors and prune_threshold.
PruneAtMostTopK ==
    (pc = "pruned" /\ cfg.keep_top_k # 0) => Len(survivors) <= cfg.keep_top_k

\* C10 as amended: with keep_top_k = K >= 1 configured, at most
\* max(K, min(min_survivors, |batch|)) nodes survive; so at most K survive
\* whenever min_survivors <= K.
PruneAtMostTopKOrMin ==
    (pc = "pruned" /\ cfg.keep_top_k >= 1) =>
        Len(survivors) <= Max(cfg.keep_top_k, Min(cfg.min_survivors, Len(expanded)))

\* the cap takes effect: more than K nodes pass the threshold and K survive
PruneTopKWitness ==
    /\ pc = "pruned"
    /\ cfg.keep_top_k = 1
    /\ cfg.min_survivors <= 1
    /\ Len(ThresholdFilter(expanded, scores, cfg)) = 2
    /\ Len(survivors) = 1
    /\ \E id \in Range(expanded) :
          /\ nodes[id].status = PRUNED
          /\ id \in DOMAIN scores
          /\ ScoreOf(id, scores) >= cfg.prune_threshold

\* C25 Pruning is score-monotone: after _prune no node it marked PRUNED has a
\* strictly higher score than a survivor, a batch node without an entry in
\* the score map counting as score 0.
PruneScoreMonotone ==
    pc = "pruned" =>
        \A p \in Range(expanded), q \in Range(survivors) :
            nodes[p].status = PRUNED
                => ScoreOrZero(p, scores, cfg) <= ScoreOrZero(q, scores, cfg)

\* the cap had to sort: the first node of the batch passed the threshold and
\* was pruned, a later node with a higher score survived
PruneScoreMonotoneWitness ==
    /\ pc = "pruned"
    /\ cfg.keep_top_k = 1
    /\ Len(expanded) = 3
    /\ Len(ThresholdFilter(expanded, scores, cfg)) = 3
    /\ Len(survivors) = 1
    /\ nodes[expanded[1]].status = PRUNED
    /\ ScoreOf(expanded[1], scores) < ScoreOf(survivors[1], scores)

\* C27 as stated: the min-survivors stage only adds survivors: every batch
\* node that passed the threshold filter and was kept by the top-K cap is a
\* survivor and is not marked PRUNED after _prune, for every prune_threshold
\* and every score map.
MinSurvivorsOnlyAdds ==
    pc = "pruned" =>
        \A id \in Range(TopKCap(ThresholdFilter(expanded, scores, cfg), scores, cfg)) :
            id \in Range(survivors) /\ nodes[id].status # PRUNED

\* ============================================================================
\* Specification of DTSEngine.run from the state _initialize_tree leaves: the
\* number of strategies, the scoring mode, user_variability and the number of
\* rounds are drawn in Init; every reply of the text-generation capability is
\* drawn by the action that consumes it.
\* ============================================================================
EMPTY == "<empty>"   \* the reply stayed empty through the retries: LLMEmptyResponseError
RAISE == "<raise>"   \* llm.complete raised any other exception
FAIL == 0 - 1        \* a judge call raised or its reply lacks the score
BAD == 0 - 2         \* a judge reply whose score is not a number

StrategyCounts == {0, 1, 2}
RoundCounts == {1, 2}
UserResponses == {"u", "bye", EMPTY, RAISE}
AssistantResponses == {"a", EMPTY, RAISE}
RephraseResponses == {"R", EMPTY, RAISE}
IntentResponses == {FAIL, 0, 1, 2}
JudgePanels == {<<8, 8, 5>>, <<5, 8, 5>>, <<5, FAIL, 8>>, <<FAIL, FAIL, 8>>, <<8, BAD, 5>>}
RankEntries == {8, 5, FAIL, BAD}
RankingResponses == {"ranking", "no ranking", RAISE}

IsUserMessage(m) == m \in {"U", "R", "u", "bye"}

RECURSIVE SortedIds(_)
\* the ids of S in the order of the node map
SortedIds(S) ==
    IF S = {} THEN <<>>
    ELSE LET m == CHOOSE x \in S : \A y \in S : x <= y
         IN  <<m>> \o SortedIds(S \ {m})

\* a slip: gather without return_exceptions, the first exception propagates
gather_propagating(results) ==
    IF \E i \in 1..Len(results) : IsRaised(results[i])
    THEN results[CHOOSE i \in 1..Len(results) :
                    /\ IsRaised(results[i])
                    /\ \A j \in 1..(i - 1) : ~IsRaised(results[j])]
    ELSE [results |-> results]

\* asyncio.gather(*tasks, return_exceptions=True): exceptions come back as results
gather(results) == [results |-> results]

\* ---------------------------------------------------- ConversationSimulator
should_terminate(user_response) == user_response = "bye"

\* _run_turn without the early exit: the user turn is appended and the
\* assistant is asked whatever the user said
run_turn_no_early_exit(node, history, skip_user_simulation, user_response, assistant_response) ==
    LET h == IF skip_user_simulation THEN history ELSE Append(history, user_response)
        asked == IF skip_user_simulation THEN <<>>
                 ELSE <<[call |-> "user", reply |-> user_response]>>
        answered == Append(asked, [call |-> "assistant", reply |-> assistant_response])
    IN
    IF ~skip_user_simulation /\ user_response = RAISE
    THEN [outcome |-> "raise", node |-> node, history |-> history, failed |-> TRUE,
          calls |-> asked]
    ELSE IF ~skip_user_simulation /\ user_response = EMPTY
    THEN [outcome |-> "stop",
          node |-> [node EXCEPT !.status = ERROR,
                                !.prune_reason = [text |-> "empty user response after retries"]],
          history |-> history, failed |-> TRUE, calls |-> asked]
    ELSE IF assistant_response = RAISE
    THEN [outcome |-> "raise", node |-> node, history |-> h, failed |-> TRUE,
          calls |-> answered]
    ELSE IF assistant_response = EMPTY
    THEN [outcome |-> "stop",
          node |-> [node EXCEPT !.status = ERROR,
                                !.prune_reason = [text |-> "empty assistant response after retries"]],
          history |-> h, failed |-> TRUE, calls |-> answered]
    ELSE [outcome |-> "continue",
          node |-> IF ~skip_user_simulation /\ should_terminate(user_response)
                   THEN [node EXCEPT !.status = TERMINAL] ELSE node,
          history |-> Append(h, assistant_response), failed |-> FALSE,
          calls |-> answered]

\* _run_turn: what it returns ("continue" for True, "stop" for False, "raise"
\* when an exception other than LLMEmptyResponseError leaves it), the node and
\* the history as it leaves them, whether a call of the turn failed, and the
\* calls it issued (_simulate_user, _generate_assistant) with their replies.
run_turn(node, history, skip_user_simulation, user_response, assistant_response) ==
    LET h == IF skip_user_simulation THEN history ELSE Append(history, user_response)
        asked == IF skip_user_simulation THEN <<>>
                 ELSE <<[call |-> "user", reply |-> user_response]>>
        answered == Append(asked, [call |-> "assistant", reply |-> assistant_response])
    IN
    IF ~skip_user_simulation /\ user_response = RAISE
    THEN [outcome |-> "raise", node |-> node, history |-> history, failed |-> TRUE,
          calls |-> asked]
    ELSE IF ~skip_user_simulation /\ user_response = EMPTY
    THEN [outcome |-> "stop",
          node |-> [node EXCEPT !.status = ERROR,
                                !.prune_reason = [text |-> "empty user response after retries"]],
          history |-> history, failed |-> TRUE, calls |-> asked]
    ELSE IF ~skip_user_simulation /\ should_terminate(user_response)
    THEN [outcome |-> "stop", node |-> [node EXCEPT !.status = TERMINAL],
          history |-> h, failed |-> FALSE, calls |-> asked]
    ELSE IF assistant_response = RAISE
    THEN [outcome |-> "raise", node |-> node, history |-> h, failed |-> TRUE,
          calls |-> answered]
    ELSE IF assistant_response = EMPTY
    THEN [outcome |-> "stop",
          node |-> [node EXCEPT !.status = ERROR,
                                !.prune_reason = [text |-> "empty assistant response after retries"]],
          history |-> h, failed |-> TRUE, calls |-> answered]
    ELSE [outcome |-> "continue", node |-> node,
          history |-> Append(h, assistant_response), failed |-> FALSE,
          calls |-> answered]

\* the coroutine of _expand_linear(node, turns) or _expand_with_intent(node, turns, intent)
ExpansionTask(node_id, kind, ns) ==
    [node |-> node_id, kind |-> kind, turn |-> 0, history |-> ns[node_id].messages,
     state |-> "running", stale |-> FALSE]

\* One turn of an expansion coroutine: the rephrase of _expand_with_intent
\* before its first turn, _run_turn, and on the last turn or a stop
\* "node.messages = history; return node". failed names the calls that
\* failed: the rephrase, the user or assistant call of the turn; calls lists
\* the calls the step issued, in order.
expand_turn(t, node, turns, rephrased, user_response, assistant_response) ==
    LET first == t.kind = "intent" /\ t.turn = 0
        rephrasing == first /\ t.history # <<>> /\ IsUserMessage(t.history[1])
        h == IF rephrasing /\ rephrased \notin {EMPTY, RAISE}
             THEN [t.history EXCEPT ![1] = rephrased]
             ELSE t.history
        r == run_turn(node, h, first, user_response, assistant_response)
        lost == IF rephrasing /\ rephrased = EMPTY THEN {"rephrase"} ELSE {}
        asked == IF rephrasing THEN <<[call |-> "rephrase", reply |-> rephrased]>> ELSE <<>>
    IN
    IF rephrasing /\ rephrased = RAISE
    THEN [task |-> [t EXCEPT !.state = "raised", !.history = <<>>], node |-> node,
          failed |-> {"rephrase"}, calls |-> asked]
    ELSE IF r.outcome = "raise"
    THEN [task |-> [t EXCEPT !.state = "raised", !.history = <<>>], node |-> r.node,
          failed |-> lost \cup {"turn"}, calls |-> asked \o r.calls]
    ELSE IF r.outcome = "stop" \/ t.turn + 1 >= turns
    THEN [task |-> [t EXCEPT !.state = "returned", !.history = <<>>],
          node |-> [r.node EXCEPT !.messages = r.history],
          failed |-> lost \cup (IF r.failed THEN {"turn"} ELSE {}),
          calls |-> asked \o r.calls]
    ELSE [task |-> [t EXCEPT !.turn = t.turn + 1, !.history = r.history], node |-> r.node,
          failed |-> lost \cup (IF r.failed THEN {"turn"} ELSE {}),
          calls |-> asked \o r.calls]

\* a slip: the number of intents decides alone, user_variability is not read
intents_per_node_configured(c) == c.user_intents_per_branch

\* DTSEngine.run: intents_per_node
intents_per_node(c) == IF c.user_variability THEN c.user_intents_per_branch ELSE 1

RECURSIVE ForkChildren(_, _, _)
\* expand_nodes, "Build expansion workload": the tree after the children of
\* every leaf that got intents are attached, in the order of the leaves
ForkChildren(ns, leaves, intents) ==
    IF leaves = <<>> THEN ns
    ELSE LET leaf == Head(leaves)
             k == intents[leaf]
             one == IF k >= 1
                    THEN add_child(ns, leaf, generate_node_id(ns),
                                   DialogueNode(leaf, ns[leaf].depth + 1, ns[leaf].strategy,
                                                "I", ns[leaf].messages))
                    ELSE ns
         IN  IF k >= 1
             THEN With(one, LAMBDA attached :
                           ForkChildren(attached, leaves, [intents EXCEPT ![leaf] = k - 1]))
             ELSE ForkChildren(ns, Tail(leaves), intents)

\* a slip: only a raised intent request falls back, an empty list does not
FallbackNodesRaisedOnly(leaves, intents) ==
    Filter(leaves, {id \in Range(leaves) : intents[id] = FAIL})

\* expand_nodes, fallback_nodes: the leaves whose intent request raised or
\* returned nothing, in the order of the leaves
FallbackNodes(leaves, intents) ==
    Filter(leaves, {id \in Range(leaves) : intents[id] \in {FAIL, 0}})

\* _expand_linear_batch after its gather: a raised task marks its node ERROR
LinearBatchMark(ns, ts) ==
    [id \in DOMAIN ns |->
        IF \E i \in 1..Len(ts) : ts[i].node = id /\ ~ts[i].stale /\ ts[i].state = "raised"
        THEN [ns[id] EXCEPT !.status = ERROR]
        ELSE ns[id]]

RECURSIVE LinearBatchExpanded(_)
LinearBatchExpanded(ts) ==
    IF ts = <<>> THEN <<>>
    ELSE (IF ~Head(ts).stale /\ Head(ts).state = "returned" THEN <<Head(ts).node>> ELSE <<>>)
         \o LinearBatchExpanded(Tail(ts))

\* a timeout that cancels what has not finished: no coroutine is left running
StaleTasksCancelled(ts) == <<>>

RECURSIVE StaleTasks(_)
\* the coroutines as_completed left running when its timeout fired
StaleTasks(ts) ==
    IF ts = <<>> THEN <<>>
    ELSE (IF Head(ts).state = "running"
          THEN <<[Head(ts) EXCEPT !.stale = TRUE]>> ELSE <<>>)
         \o StaleTasks(Tail(ts))

Awaited(ts) == {i \in 1..Len(ts) : ~ts[i].stale /\ ts[i].state = "running"}

\* ---------------------------------------------------- TrajectoryEvaluator
\* _judge_single whose gather lets the exception of a judge call through
judge_single_propagating(panel, prune_threshold) ==
    IF \E i \in 1..Len(panel) : panel[i] \in {BAD, FAIL} THEN Raised("LLMError")
    ELSE aggregate_majority_vote(panel, prune_threshold)

\* _judge_single: the three replies of the panel, aggregated
judge_single(panel, prune_threshold) ==
    IF \E i \in 1..Len(panel) : panel[i] = BAD THEN Raised("ValueError")
    ELSE aggregate_majority_vote([i \in 1..Len(panel) |->
                                     IF panel[i] = FAIL THEN 0 ELSE panel[i]],
                                 prune_threshold)

\* groups of evaluate_comparative: the batch nodes of one parent, in batch order
GroupOf(ns, batch, parent) == Filter(batch, {id \in Range(batch) : ns[id].parent_id = parent})

RECURSIVE GroupKeys(_, _, _)
\* the parents of the batch in the order the grouping meets them
GroupKeys(ns, batch, seen) ==
    IF batch = <<>> THEN <<>>
    ELSE IF ns[Head(batch)].parent_id \in seen THEN GroupKeys(ns, Tail(batch), seen)
    ELSE <<ns[Head(batch)].parent_id>>
         \o GroupKeys(ns, Tail(batch), seen \cup {ns[Head(batch)].parent_id})

RECURSIVE JudgeTasks(_, _, _)
JudgeTasks(ns, batch, keys) ==
    IF keys = <<>> THEN <<>>
    ELSE <<GroupOf(ns, batch, Head(keys))>> \o JudgeTasks(ns, batch, Tail(keys))

\* a slip: the whole batch is ranked in one call, whatever the parents
ComparativeTasksOneGroup(ns, batch) == <<[kind |-> "group", group |-> batch]>>

\* evaluate_comparative: the judging tasks, single nodes first, then the groups
ComparativeTasks(ns, batch) ==
    With(JudgeTasks(ns, batch, GroupKeys(ns, batch, {})),
         LAMBDA all :
            With(SortedIds({i \in 1..Len(all) : Len(all[i]) = 1})
                    \o SortedIds({i \in 1..Len(all) : Len(all[i]) # 1}),
                 LAMBDA idx :
                    [i \in 1..Len(all) |->
                        [kind |-> IF Len(all[idx[i]]) = 1 THEN "single" ELSE "group",
                         group |-> all[idx[i]]]]))

\* evaluate_absolute: one _judge_single per node
AbsoluteTasks(batch) == [i \in 1..Len(batch) |-> [kind |-> "absolute", group |-> <<batch[i]>>]]

\* the judging tasks of the scoring step of DTSEngine.run
ScoringTasks(ns, batch, c) ==
    IF c.scoring_mode = "comparative" /\ Len(batch) > 1
    THEN ComparativeTasks(ns, batch)
    ELSE AbsoluteTasks(batch)

\* node.stats.aggregated_score = ... for every node of written
WriteScores(ns, written) ==
    [id \in DOMAIN ns |->
        IF id \in DOMAIN written
        THEN [ns[id] EXCEPT !.aggregated_score = written[id]]
        ELSE ns[id]]

\* _fallback_absolute(group): every sibling judged on its own, a raised judging
\* is a zero score
fallback_absolute(group, panels, prune_threshold) ==
    [id \in Range(group) |->
        IF IsRaised(judge_single(panels[id], prune_threshold))
        THEN AggregatedScoreZero(prune_threshold)
        ELSE judge_single(panels[id], prune_threshold)]

\* the entries of the ranking that are processed before one of them raises
RankedPrefix(group, entries) ==
    IF \E i \in 1..Len(group) : entries[group[i]] = BAD
    THEN SubSeq(group, 1, (CHOOSE i \in 1..Len(group) :
                              /\ entries[group[i]] = BAD
                              /\ \A j \in 1..(i - 1) : entries[group[j]] # BAD) - 1)
    ELSE group

\* _judge_group_comparative without the fallback: a reply without a ranking
\* is processed as an empty ranking, every sibling is a "missing node"
judge_group_comparative_no_fallback(group, response, entries, panels, prune_threshold) ==
    IF response = RAISE
    THEN [result |-> Raised("LLMError"), written |-> <<>>]
    ELSE LET done == IF response = "no ranking" THEN Range(group)
                     ELSE Range(RankedPrefix(group, entries))
             ranked == IF response = "no ranking" THEN {}
                       ELSE {id \in done : entries[id] # FAIL}
         IN  IF done # Range(group)
             THEN [result |-> Raised("TypeError"),
                   written |-> [id \in ranked |-> entries[id]]]
             ELSE [result |-> [scores |-> [id \in Range(group) |->
                                  IF id \in ranked
                                  THEN RankedScore(entries[id], prune_threshold)
                                  ELSE AggregatedScoreZero(prune_threshold)]],
                   written |-> [id \in Range(group) |->
                                  IF id \in ranked THEN entries[id] ELSE 0]]

\* _judge_group_comparative(parent_id, group): what the task returns and the
\* scores it has written into the nodes by then
judge_group_comparative(group, response, entries, panels, prune_threshold) ==
    IF response = RAISE
    THEN [result |-> Raised("LLMError"), written |-> <<>>]
    ELSE IF response = "no ranking"
    THEN LET fb == fallback_absolute(group, panels, prune_threshold)
         IN  [result |-> [scores |-> fb],
              written |-> [id \in DOMAIN fb |-> fb[id].aggregated_score]]
    ELSE LET done == Range(RankedPrefix(group, entries))
             ranked == {id \in done : entries[id] # FAIL}
         IN  IF done # Range(group)
             THEN [result |-> Raised("TypeError"),
                   written |-> [id \in ranked |-> entries[id]]]
             ELSE [result |-> [scores |-> [id \in Range(group) |->
                                  IF id \in ranked
                                  THEN RankedScore(entries[id], prune_threshold)
                                  ELSE AggregatedScoreZero(prune_threshold)]],
                   written |-> [id \in Range(group) |->
                                  IF id \in ranked THEN entries[id] ELSE 0]]

\* _judge_single_wrapped(node)
judge_single_wrapped(id, panel, prune_threshold) ==
    LET agg == judge_single(panel, prune_threshold)
    IN  IF IsRaised(agg) THEN [result |-> agg, written |-> <<>>]
        ELSE [result |-> [scores |-> (id :> agg)], written |-> (id :> agg.aggregated_score)]

RECURSIVE MergeComparative(_)
\* evaluate_comparative, "Merge results": a raised task contributes nothing,
\* a later result overwrites an earlier one
MergeComparative(results) ==
    IF results = <<>> THEN <<>>
    ELSE LET before == MergeComparative(SubSeq(results, 1, Len(results) - 1))
             last == results[Len(results)]
         IN  IF IsRaised(last) THEN before ELSE last.scores @@ before

\* evaluate_absolute after its gather: a raised judging is a zero score
MergeAbsolute(batch, results, prune_threshold) ==
    [id \in Range(batch) |->
        LET i == CHOOSE j \in 1..Len(batch) : batch[j] = id
        IN  IF IsRaised(results[i]) THEN AggregatedScoreZero(prune_threshold) ELSE results[i]]

\* ------------------------------------------------------------- DialogueTree
\* best_leaf_by_score over leaves(): the status of the leaf is not looked at
best_leaf_any_status(ns) ==
    LET leaves == {i \in DOMAIN ns : Len(ns[i].children) = 0}
    IN  IF leaves = {} THEN NoId
        ELSE CHOOSE i \in leaves :
                \A j \in leaves :
                    \/ ns[i].aggregated_score > ns[j].aggregated_score
                    \/ ns[i].aggregated_score = ns[j].aggregated_score /\ i <= j

\* best_leaf_by_score(): the first active leaf with the highest aggregated_score
best_leaf_by_score(ns) ==
    IF ActiveLeafIds(ns) = {} THEN NoId
    ELSE CHOOSE i \in ActiveLeafIds(ns) :
            \A j \in ActiveLeafIds(ns) :
                \/ ns[i].aggregated_score > ns[j].aggregated_score
                \/ ns[i].aggregated_score = ns[j].aggregated_score /\ i <= j

\* the DTSRunResult of DTSEngine.run
DTSRunResult(ns, total_pruned, rounds) ==
    LET best_node == best_leaf_by_score(ns)
    IN  [best_node_id |-> best_node,
         best_score |-> IF best_node # NoId THEN ns[best_node].aggregated_score ELSE 0,
         best_messages |-> IF best_node # NoId THEN ns[best_node].messages ELSE <<>>,
         pruned_count |-> total_pruned,
         total_rounds |-> rounds]

\* ------------------------------------------------------------ DTSEngine.run
NoFaults == [call_failed |-> {}, rank_raised |-> {}, unranked |-> <<>>, timed_out |-> {},
             faults |-> 0]

\* the history of a new round: the count of the faults of the run goes on
NewRound(h) == [NoFaults EXCEPT !.faults = h.faults]

\* the history after k more faults, the calls of the nodes of failed among them
Faulted(h, k, failed) == [h EXCEPT !.faults = @ + k, !.call_failed = @ \cup failed]

PanelFaults(panel) == Cardinality({i \in 1..Len(panel) : panel[i] \in {FAIL, BAD}})
PanelFailed(panel) == \E i \in 1..Len(panel) : panel[i] = FAIL

Expandable(ns) ==
    Filter(SortedIds(ActiveLeafIds(ns)), {id \in DOMAIN ns : ns[id].strategy # None})

StartRun ==
    /\ IdleAgg /\ IdleGate /\ IdleRound /\ IdleCall
    /\ pc = "round"
    /\ root_id = 0
    /\ \E n \in StrategyCounts : nodes = StrategyTree(n)
    /\ \E m \in {"absolute", "comparative"}, v \in BOOLEAN :
          cfg = [BaseConfig EXCEPT !.scoring_mode = m, !.user_variability = v]
    /\ \E r \in RoundCounts :
          run = [round_num |-> 0, rounds |-> r, total_pruned |-> 0, result |-> NoResult,
                 forked |-> FALSE, expandable |-> <<>>, judging |-> <<>>, results |-> <<>>]
    /\ tasks = <<>>
    /\ hist = NoFaults
    /\ bp_calls = NoCalls(nodes)

InitRun == StartRun /\ IdleEmit

\* a round starts with linear expansion: _expand_linear_batch creates its tasks
RoundLinearStep ==
    /\ pc = "round"
    /\ run.round_num < run.rounds
    /\ Expandable(nodes) # <<>>
    /\ intents_per_node(cfg) <= 1
    /\ run' = [run EXCEPT !.round_num = @ + 1, !.forked = FALSE,
                          !.expandable = Expandable(nodes)]
    /\ tasks' = tasks \o [i \in 1..Len(Expandable(nodes)) |->
                             ExpansionTask(Expandable(nodes)[i], "linear", nodes)]
    /\ expanded' = <<>> /\ scores' = <<>> /\ survivors' = <<>>
    /\ hist' = NewRound(hist)
    /\ pc' = "expand"
    /\ UNCHANGED <<treeVars, cfg, aggVars, bp_calls, gate, call>>

RoundLinear == RoundLinearStep /\ UNCHANGED emit

\* a round starts with forking: expand_nodes requests the intents
RoundForkedStep ==
    /\ pc = "round"
    /\ run.round_num < run.rounds
    /\ Expandable(nodes) # <<>>
    /\ intents_per_node(cfg) > 1
    /\ run' = [run EXCEPT !.round_num = @ + 1, !.forked = TRUE,
                          !.expandable = Expandable(nodes)]
    /\ expanded' = <<>> /\ scores' = <<>> /\ survivors' = <<>>
    /\ hist' = NewRound(hist)
    /\ pc' = "intents"
    /\ UNCHANGED <<treeVars, cfg, aggVars, bp_calls, tasks, gate, call>>

RoundForked == RoundForkedStep /\ UNCHANGED emit

\* expand_nodes from the gather of the intents to the creation of the tasks:
\* intents[id] is the number of intents generate_intents returned for the leaf,
\* FAIL when it raised
IntentsStep ==
    /\ pc = "intents"
    /\ \E intents \in [Range(run.expandable) -> IntentResponses] :
       \E forked \in {ForkChildren(nodes, run.expandable,
                                    [id \in Range(run.expandable) |->
                                        IF intents[id] = FAIL THEN 0 ELSE intents[id]])} :
         LET children == SortedIds(DOMAIN forked \ DOMAIN nodes)
             fallback_nodes == FallbackNodes(run.expandable, intents)
             full == Cardinality(DOMAIN forked) = MaxRunNodes
             faults == Cardinality({id \in Range(run.expandable) :
                                       intents[id] = FAIL \/ (intents[id] = 0 /\ ~full)})
         IN  /\ Cardinality(DOMAIN forked) <= MaxRunNodes
             /\ hist.faults + faults <= MaxFaults
             /\ hist' = Faulted(hist, faults, {})
             /\ nodes' = forked
             /\ tasks' = tasks
                          \o [i \in 1..Len(children) |->
                                 ExpansionTask(children[i], "intent", forked)]
                          \o [i \in 1..Len(fallback_nodes) |->
                                 ExpansionTask(fallback_nodes[i], "linear", forked)]
    /\ pc' = "expand"
    /\ UNCHANGED <<root_id, cfg, roundVars, aggVars, bp_calls, run, gate, call>>

Intents == IntentsStep /\ UNCHANGED emit

\* an expansion coroutine runs one turn. The coroutines of a round work on
\* nodes of their own and run here in the order of their creation. A coroutine
\* as_completed gave up on runs on where the engine awaits a call: before the
\* judging tasks, which do not read the tree, or in a later expansion; when it
\* finishes nothing refers to it any more
ExpandTurnStep ==
    /\ \E i \in 1..Len(tasks) :
         /\ tasks[i].state = "running"
         /\ \/ pc = "expand" /\ ~tasks[i].stale /\ \A j \in Awaited(tasks) : i <= j
            \/ pc \in {"intents", "expand"} /\ tasks[i].stale
            \/ pc = "judge" /\ run.results = <<>> /\ tasks[i].stale
         /\ \E rephrased \in RephraseResponses, user_response \in UserResponses,
               assistant_response \in AssistantResponses :
            \E t \in {tasks[i]} :
            \E r \in {expand_turn(t, nodes[t.node], cfg.turns_per_branch,
                                  rephrased, user_response, assistant_response)} :
                  /\ hist.faults + Cardinality(r.failed) <= MaxFaults
                  /\ tasks' = IF t.stale /\ r.task.state # "running"
                               THEN SubSeq(tasks, 1, i - 1) \o SubSeq(tasks, i + 1, Len(tasks))
                               ELSE [tasks EXCEPT ![i] = r.task]
                  /\ nodes' = [nodes EXCEPT ![t.node] = r.node]
                  /\ expanded' = IF run.forked /\ ~t.stale /\ r.task.state = "returned"
                                 THEN Append(expanded, t.node)
                                 ELSE expanded
                  /\ hist' = Faulted(hist, Cardinality(r.failed),
                                     IF ~t.stale /\ ("turn" \in r.failed \/ r.task.state = "raised")
                                     THEN {t.node} ELSE {})
    /\ UNCHANGED <<root_id, cfg, pc, scores, survivors, aggVars, bp_calls, run, gate, call>>

ExpandTurn == ExpandTurnStep /\ UNCHANGED emit

\* _expand_linear_batch: the gather returns and the results are sorted out;
\* DTSEngine.run, "Score branches": the evaluator creates its judging tasks
GatherLinearStep ==
    /\ pc = "expand"
    /\ ~run.forked
    /\ Awaited(tasks) = {}
    /\ LET results == [i \in 1..Len(tasks) |->
                          IF tasks[i].state = "raised" /\ ~tasks[i].stale
                          THEN Raised("Exception") ELSE [node |-> tasks[i].node]]
       IN  IF IsRaised(gather(results))
           THEN /\ pc' = "raised"
                /\ run' = [run EXCEPT !.result = gather(results)]
                /\ UNCHANGED <<nodes, expanded, tasks>>
           ELSE /\ nodes' = LinearBatchMark(nodes, tasks)
                /\ expanded' = LinearBatchExpanded(tasks)
                /\ tasks' = StaleTasks(tasks)
                /\ \E judging \in {ScoringTasks(LinearBatchMark(nodes, tasks),
                                                  LinearBatchExpanded(tasks), cfg)} :
                      run' = [run EXCEPT !.judging = judging, !.results = <<>>]
                /\ pc' = "judge"
    /\ UNCHANGED <<root_id, cfg, scores, survivors, aggVars, bp_calls, hist, gate, call>>

GatherLinear == GatherLinearStep /\ UNCHANGED emit

\* expand_nodes: every task of as_completed has been consumed;
\* DTSEngine.run, "Score branches": the evaluator creates its judging tasks
GatherForkedStep ==
    /\ pc = "expand"
    /\ run.forked
    /\ Awaited(tasks) = {}
    /\ tasks' = StaleTasks(tasks)
    /\ \E judging \in {ScoringTasks(nodes, expanded, cfg)} :
          run' = [run EXCEPT !.judging = judging, !.results = <<>>]
    /\ pc' = "judge"
    /\ UNCHANGED <<treeVars, cfg, roundVars, aggVars, bp_calls, hist, gate, call>>

GatherForked == GatherForkedStep /\ UNCHANGED emit

\* expand_nodes: the total timeout of as_completed fires; the tasks that have
\* not finished are counted as failed and keep running; the evaluator creates
\* its judging tasks
GatherTimeoutStep ==
    /\ pc = "expand"
    /\ run.forked
    /\ Awaited(tasks) # {}
    /\ hist.faults < MaxFaults
    /\ hist' = [hist EXCEPT !.timed_out = {tasks[i].node : i \in Awaited(tasks)},
                            !.faults = @ + 1]
    /\ tasks' = StaleTasks(tasks)
    /\ \E judging \in {ScoringTasks(nodes, expanded, cfg)} :
          run' = [run EXCEPT !.judging = judging, !.results = <<>>]
    /\ pc' = "judge"
    /\ UNCHANGED <<treeVars, cfg, roundVars, aggVars, bp_calls, gate, call>>

GatherTimeout == GatherTimeoutStep /\ UNCHANGED emit

\* one judging task of evaluate_absolute runs: _judge_single(node)
JudgeAbsoluteStep ==
    /\ pc = "judge"
    /\ run.judging # <<>>
    /\ Head(run.judging).kind = "absolute"
    /\ \E panel \in JudgePanels :
         /\ hist.faults + PanelFaults(panel) <= MaxFaults
         /\ \E r \in {judge_single(panel, cfg.prune_threshold)} :
               run' = [run EXCEPT !.judging = Tail(@), !.results = Append(@, r)]
         /\ hist' = Faulted(hist, PanelFaults(panel),
                            IF PanelFailed(panel) THEN Range(Head(run.judging).group) ELSE {})
    /\ UNCHANGED <<treeVars, cfg, pc, roundVars, aggVars, bp_calls, tasks, gate, call>>

JudgeAbsolute == JudgeAbsoluteStep /\ UNCHANGED emit

\* one judging task of evaluate_comparative runs: _judge_single_wrapped(node)
\* for a node without siblings in the batch, _judge_group_comparative for a
\* group of siblings; the ranking call is made for a group only
JudgeComparativeStep ==
    /\ pc = "judge"
    /\ run.judging # <<>>
    /\ Head(run.judging).kind \in {"single", "group"}
    /\ LET group == Head(run.judging).group
           single == Head(run.judging).kind = "single"
       IN  \E response \in RankingResponses,
              entries \in [Range(group) -> RankEntries],
              panels \in [Range(group) -> JudgePanels] :
             LET judged == single \/ response = "no ranking"
                 faults ==
                     IF single THEN PanelFaults(panels[group[1]])
                     ELSE IF response = RAISE THEN 1
                     ELSE IF response = "no ranking"
                     THEN 1 + SumOver(Range(group),
                                      [id \in Range(group) |-> PanelFaults(panels[id])])
                     ELSE Cardinality({id \in Range(group) : entries[id] \in {FAIL, BAD}})
             IN  /\ single => response = "no ranking"
                 /\ response # "ranking" => \A id \in Range(group) : entries[id] = 8
                 /\ ~judged => \A id \in Range(group) : panels[id] = <<8, 8, 5>>
                 /\ hist.faults + faults <= MaxFaults
                 /\ \E r \in {IF single
                               THEN judge_single_wrapped(group[1], panels[group[1]],
                                                         cfg.prune_threshold)
                               ELSE judge_group_comparative(group, response, entries, panels,
                                                            cfg.prune_threshold)} :
                       /\ run' = [run EXCEPT !.judging = Tail(@),
                                             !.results = Append(@, r.result)]
                       /\ nodes' = WriteScores(nodes, r.written)
                 /\ hist' = IF ~single /\ response = RAISE
                            THEN [Faulted(hist, faults, Range(group)) EXCEPT
                                     !.rank_raised = @ \cup Range(group)]
                            ELSE IF single
                            THEN Faulted(hist, faults,
                                         {id \in Range(group) : PanelFailed(panels[id])})
                            ELSE IF judged
                            THEN [Faulted(hist, faults,
                                          {id \in Range(group) : PanelFailed(panels[id])})
                                     EXCEPT !.unranked = panels @@ @]
                            ELSE Faulted(hist, faults, {})
    /\ UNCHANGED <<root_id, cfg, pc, roundVars, aggVars, bp_calls, tasks, gate, call>>

JudgeComparative == JudgeComparativeStep /\ UNCHANGED emit

\* the gather of the evaluator returns and the results are merged
MergeStep ==
    /\ pc = "judge"
    /\ run.judging = <<>>
    /\ \E g \in {gather(run.results)},
          absolute \in {~(cfg.scoring_mode = "comparative" /\ Len(expanded) > 1)} :
       \E merged \in {IF IsRaised(g) THEN <<>>
                      ELSE IF absolute
                      THEN MergeAbsolute(expanded, run.results, cfg.prune_threshold)
                      ELSE MergeComparative(run.results)} :
           IF IsRaised(g)
           THEN /\ pc' = "raised"
                /\ run' = [run EXCEPT !.result = g, !.results = <<>>]
                /\ UNCHANGED <<nodes, scores>>
           ELSE /\ scores' = merged
                /\ nodes' = IF absolute
                            THEN WriteScores(nodes,
                                     [id \in {x \in Range(expanded) :
                                                 ~IsRaised(run.results[
                                                     CHOOSE j \in 1..Len(expanded) :
                                                         expanded[j] = x])} |->
                                         merged[id].aggregated_score])
                            ELSE nodes
                /\ run' = [run EXCEPT !.results = <<>>]
                /\ pc' = "backprop"
    /\ UNCHANGED <<root_id, cfg, expanded, survivors, aggVars, bp_calls, tasks, hist, gate, call>>

Merge == MergeStep /\ UNCHANGED emit

\* DTSEngine.run, "Backpropagate", then "Prune": _prune(expanded, scores) and
\* the count of the pruned
RunPruneStep ==
    /\ pc = "backprop"
    /\ \E surv \in {PruneSurvivors(expanded, scores, cfg)},
          ns \in {BackpropagateAll(nodes, expanded, scores)} :
          /\ survivors' = surv
          /\ nodes' = PruneMark(ns, expanded, surv, scores, cfg)
          /\ run' = [run EXCEPT !.total_pruned = @ + Len(expanded) - Len(surv)]
    /\ pc' = "round"
    /\ UNCHANGED <<root_id, cfg, expanded, scores, aggVars, bp_calls, tasks, hist, gate, call>>

RunPrune == RunPruneStep /\ UNCHANGED emit

\* the round loop ends (all rounds done, "No active leaves" or "No expandable
\* nodes"); DTSEngine.run, "Find best" to the return
ReturnStep ==
    /\ pc = "round"
    /\ run.round_num >= run.rounds \/ Expandable(nodes) = <<>>
    /\ run' = [run EXCEPT !.result = DTSRunResult(nodes, run.total_pruned, run.rounds)]
    /\ pc' = "done"
    /\ UNCHANGED <<treeVars, cfg, roundVars, aggVars, bp_calls, tasks, hist, gate, call>>

Return == ReturnStep /\ UNCHANGED emit

NextRun ==
    \/ RoundLinear \/ RoundForked \/ Intents \/ ExpandTurn
    \/ GatherLinear \/ GatherForked \/ GatherTimeout
    \/ JudgeAbsolute \/ JudgeComparative \/ Merge
    \/ RunPrune \/ Return

SpecRun == InitRun /\ [][NextRun]_vars

\* Every external call eventually returns or fails and the event loop keeps
\* running what is ready
FairSpecRun == SpecRun /\ WF_vars(NextRun)

\* C3 as stated: a status other than ACTIVE is absorbing; no step of the run
\* changes the status of a node that is PRUNED, TERMINAL or ERROR.
StatusAbsorbing ==
    [][\A id \in DOMAIN nodes :
          nodes[id].status # ACTIVE => nodes'[id].status = nodes[id].status]_vars

\* C5 as stated: when the expansion step or the evaluation step of a round has
\* ended, every node of which a call failed in it has status ERROR and a reason.
CallFailureMarksError ==
    ((pc = "judge" /\ run.results = <<>>) \/ pc = "backprop") =>
        \A id \in hist.call_failed :
            nodes[id].status = ERROR /\ nodes[id].prune_reason # NoReason

\* C6: after _initialize_tree, whatever intent requests, turns, expansion tasks
\* and judge calls fail, DTSEngine.run never raises, and, every call returning
\* or failing eventually, it returns a DTSRunResult.
RunReturnsResult ==
    /\ [](pc # "raised" /\ (pc = "done" => "best_node_id" \in DOMAIN run.result))
    /\ <>(pc = "done")

\* a run of two rounds has returned although a call failed in its last round
\* and left its node ERROR
RunReturnsWitness ==
    /\ pc = "done"
    /\ run.round_num = 2
    /\ hist.faults >= 1
    /\ hist.call_failed # {}
    /\ \E id \in DOMAIN nodes : nodes[id].status = ERROR
    /\ run.result.total_rounds = 2

\* C7 as stated: in comparative scoring every sibling of a group whose ranking
\* call raised has an entry in the score map evaluate_comparative returns.
RankingFailureFallsBack ==
    (pc = "backprop" /\ cfg.scoring_mode = "comparative") =>
        \A id \in hist.rank_raised : id \in DOMAIN scores

\* C12 Fallback on a reply without a ranking: in comparative scoring, when the
\* ranking call of a sibling group of two or more returns a reply that is
\* empty or has no ranking, the scores of the round hold one AggregatedScore
\* for every sibling of the group, and it is the score that judging that
\* sibling on its own (three judges, median) gives: the zero score when that
\* judging raised.
RankingMissingFallsBack ==
    (pc = "backprop" /\ cfg.scoring_mode = "comparative")
        => \A id \in DOMAIN hist.unranked :
              /\ id \in DOMAIN scores
              /\ LET own == judge_single(hist.unranked[id], cfg.prune_threshold)
                 IN  /\ scores[id] = IF IsRaised(own)
                                     THEN AggregatedScoreZero(cfg.prune_threshold)
                                     ELSE own
                     /\ Len(scores[id].individual_scores) = JudgesPerNode

\* a group of two siblings whose ranking reply had no ranking was scored
RankingMissingWitness ==
    /\ pc = "backprop"
    /\ cfg.scoring_mode = "comparative"
    /\ Cardinality(DOMAIN hist.unranked) >= 2
    /\ \A id \in DOMAIN hist.unranked : id \in DOMAIN scores

\* C13 Best node: the best node DTSEngine.run reports is chosen among the
\* ACTIVE childless nodes only. best_node_id is None exactly when the final
\* tree has no ACTIVE leaf; otherwise it names an ACTIVE leaf whose
\* aggregated_score is at least that of every other ACTIVE leaf, whatever the
\* scores of the TERMINAL, ERROR and PRUNED nodes are.
BestIsActiveLeaf ==
    pc = "done"
        => LET best == run.result.best_node_id
               leaves == {id \in DOMAIN nodes :
                             nodes[id].status = ACTIVE /\ nodes[id].children = <<>>}
           IN  /\ best = NoId <=> leaves = {}
               /\ best # NoId
                     => /\ best \in leaves
                        /\ \A id \in leaves :
                              nodes[best].aggregated_score >= nodes[id].aggregated_score
                        /\ run.result.best_score = nodes[best].aggregated_score

\* the run returned an ACTIVE leaf although a leaf that is not ACTIVE has a
\* higher score
BestIsActiveLeafWitness ==
    /\ pc = "done"
    /\ run.result.best_node_id # NoId
    /\ \E id \in DOMAIN nodes :
          /\ nodes[id].status \in {TERMINAL, ERROR, PRUNED}
          /\ nodes[id].children = <<>>
          /\ nodes[id].aggregated_score > nodes[run.result.best_node_id].aggregated_score

\* the run returned no best node: no leaf of the final tree is ACTIVE
BestIsNoneWitness ==
    /\ pc = "done"
    /\ run.result.best_node_id = NoId
    /\ run.round_num >= 1

\* C14 as stated: when every branch of the first round fails, so that the
\* round hands no expanded node to scoring, no leaf is left ACTIVE and no
\* earlier round has produced anything, DTSEngine.run raises: it never
\* arrives at its return statement.
FirstRoundFailureRaises ==
    (/\ run.round_num = 1
     /\ run.expandable # <<>>
     /\ expanded = <<>>
     /\ \A id \in Range(run.expandable) : id \in hist.call_failed
     /\ ActiveLeafIds(nodes) = {})
        => pc # "done"

\* C18 Rounds are sequential: a step that starts round N+1 is taken only
\* after the prune step of round N has finished: the engine is between
\* rounds, every node of round N's batch that is not a survivor is marked
\* PRUNED, no judging of round N is pending, and the only expansion
\* coroutines still alive are those round N gave up on at its timeout.
RoundsSequential ==
    [][(run'.round_num > run.round_num /\ run.round_num >= 1)
          => /\ pc = "round"
             /\ \A id \in Range(expanded) :
                   id \notin Range(survivors) => nodes[id].status = PRUNED
             /\ run.judging = <<>> /\ run.results = <<>>
             /\ \A i \in 1..Len(tasks) : tasks[i].stale]_vars

\* the second round is expanding and a node pruned by the first round exists
RoundsSequentialWitness ==
    /\ run.round_num = 2
    /\ pc = "expand"
    /\ \E i \in 1..Len(tasks) : ~tasks[i].stale /\ tasks[i].state = "running"
    /\ \E id \in DOMAIN nodes : nodes[id].status = PRUNED

\* C19 as stated: in every reachable state of a run, a node has a non-null
\* prune_reason only if its status is PRUNED.
PruneReasonOnlyPruned ==
    \A id \in DOMAIN nodes :
        nodes[id].prune_reason # NoReason => nodes[id].status = PRUNED

\* C26 as stated: after the prune step of a round with a non-empty batch and
\* min_survivors >= 1 the tree has at least one ACTIVE leaf that carries a
\* strategy, so that a following round has a node to expand.
PruneLeavesExpandable ==
    (pc = "round" /\ run.round_num >= 1 /\ expanded # <<>> /\ cfg.min_survivors >= 1)
        => Expandable(nodes) # <<>>

\* C28 Failure isolation in forked expansion: a step of one expansion
\* coroutine, also one that raises, changes no other coroutine; when
\* expand_nodes returns, its batch is exactly the set of the nodes whose
\* coroutines of this round returned without raising, every coroutine that
\* has not finished is left running, and the round goes on to judge that
\* batch; the run never raises.
ForkedFailureIsolated ==
    [][/\ (pc = "expand" /\ run.forked /\ pc' = "judge")
             => /\ Range(expanded')
                      = {tasks[i].node : i \in {j \in 1..Len(tasks) :
                                                  ~tasks[j].stale /\ tasks[j].state = "returned"}}
                /\ \A i \in 1..Len(tasks) :
                      tasks[i].state = "running"
                          => \E j \in 1..Len(tasks') : tasks'[j] = [tasks[i] EXCEPT !.stale = TRUE]
                /\ run'.judging = ScoringTasks(nodes', expanded', cfg)
       /\ (pc = "expand" /\ run.forked /\ pc' = "expand")
             => \E i \in 1..Len(tasks) :
                   \A j \in 1..Len(tasks) \ {i} : \E k \in 1..Len(tasks') : tasks'[k] = tasks[j]
       /\ pc' # "raised"]_vars

\* expand_nodes returned a batch although its timeout fired: a coroutine it
\* gave up on is still running while the batch is judged
ForkedFailureWitness ==
    /\ pc = "judge"
    /\ run.forked
    /\ expanded # <<>>
    /\ hist.timed_out # {}
    /\ \E i \in 1..Len(tasks) : tasks[i].stale /\ tasks[i].state = "running"

\* expand_nodes returned a batch although one of its coroutines raised
ForkedRaisedWitness ==
    /\ pc = "judge"
    /\ run.forked
    /\ expanded # <<>>
    /\ \E id \in hist.call_failed : id \notin Range(expanded)

\* C30 as stated: at every moment of a run each node is being expanded by
\* at most one coroutine: no two running expansion coroutines, of the same
\* round or of different rounds, work on the same node.
OneTaskPerNode ==
    \A i, j \in 1..Len(tasks) :
        (i # j /\ tasks[i].state = "running" /\ tasks[j].state = "running")
            => tasks[i].node # tasks[j].node

\* C34: a node that its turn loop marked ERROR because a call returned
\* nothing usable is still returned by its expansion with the trajectory it
\* has, is in the batch handed to the scoring, has a score in absolute mode,
\* and its score is backpropagated like that of every other batch node: one
\* visit and the score added to its value_sum.
ErrorNodeStillScored ==
    [][/\ (pc = "expand" /\ pc' = "judge")
             => \A i \in 1..Len(tasks) :
                   (~tasks[i].stale /\ tasks[i].state = "returned"
                        /\ nodes[tasks[i].node].status = ERROR)
                      => /\ tasks[i].node \in Range(expanded')
                         /\ nodes'[tasks[i].node] = nodes[tasks[i].node]
                         /\ \E j \in 1..Len(run'.judging) :
                               tasks[i].node \in Range(run'.judging[j].group)
       /\ (pc = "backprop" /\ cfg.scoring_mode = "absolute")
             => Range(expanded) \subseteq DOMAIN scores
       /\ (pc = "backprop" /\ pc' = "round")
             => \A id \in Range(expanded) \cap DOMAIN scores :
                   /\ nodes'[id].visits = nodes[id].visits + 1
                   /\ nodes'[id].value_sum = nodes[id].value_sum + ScoreOf(id, scores)]_vars

\* a round has ended whose batch holds a node that is ERROR after the user
\* answered and the assistant call returned nothing: its trajectory ends with
\* the user message, it was scored and has its visit
ErrorNodeWitness ==
    /\ pc = "round"
    /\ run.round_num >= 1
    /\ \E id \in Range(expanded) :
          /\ nodes[id].status = ERROR
          /\ nodes[id].messages[Len(nodes[id].messages)] = "u"
          /\ id \in DOMAIN scores
          /\ nodes[id].visits = 1

\* C35 as stated: after the evaluation step of a round, in both scoring
\* modes, every batch node that has an entry in the score map has
\* stats.aggregated_score equal to the aggregated_score of that entry.
ScoresWrittenBack ==
    pc = "backprop" =>
        \A id \in Range(expanded) \cap DOMAIN scores :
            nodes[id].aggregated_score = ScoreOf(id, scores)

\* C36: _prune changes nothing but the status (to PRUNED) and the
\* prune_reason of the batch nodes it does not select: compared with the tree
\* the backpropagation left, every other field of every node, the survivors,
\* the nodes outside the batch, the score map and the batch are the same; a
\* batch node without a score keeps the aggregated_score it had.
PruneFrame ==
    [][(pc = "backprop" /\ pc' = "round")
          => LET before == BackpropagateAll(nodes, expanded, scores)
             IN  /\ DOMAIN nodes' = DOMAIN nodes
                 /\ \A id \in DOMAIN nodes :
                       IF id \in Range(expanded) \ Range(survivors')
                       THEN /\ nodes'[id].status = PRUNED
                            /\ [nodes'[id] EXCEPT !.status = before[id].status,
                                                  !.prune_reason = before[id].prune_reason]
                                  = before[id]
                       ELSE nodes'[id] = before[id]
                 /\ scores' = scores /\ expanded' = expanded /\ root_id' = root_id]_vars

\* a batch node was pruned without a score and still has the score of the
\* round before
PruneFrameWitness ==
    /\ pc = "round"
    /\ run.round_num = 2
    /\ \E id \in Range(expanded) \ Range(survivors) :
          /\ id \notin DOMAIN scores
          /\ nodes[id].status = PRUNED
          /\ nodes[id].aggregated_score > 0

\* C38: when the run has returned, pruned_count of the result is the number
\* of nodes of the tree with status PRUNED.
PrunedCountMatchesTree ==
    pc = "done" =>
        run.result.pruned_count = Cardinality({id \in DOMAIN nodes : nodes[id].status = PRUNED})

\* C38, step by step: a prune step counts exactly the nodes it turns PRUNED,
\* and no step takes PRUNED away from a node.
PrunedCountedOnce ==
    [][ /\ run'.total_pruned - run.total_pruned =
              Cardinality({id \in DOMAIN nodes : nodes[id].status # PRUNED /\ nodes'[id].status = PRUNED})
        /\ \A id \in DOMAIN nodes : nodes[id].status = PRUNED => nodes'[id].status = PRUNED ]_vars

IsPrefix(s, t) == Len(s) <= Len(t) /\ \A k \in 1..Len(s) : s[k] = t[k]

\* C20 as stated: the trajectory of a node is append-only for the node's
\* whole lifetime: over every step the earlier message sequence of a node is
\* a prefix of its later one, for linearly expanded nodes and for forked
\* children alike.
TrajectoryAppendOnly ==
    [][\A id \in DOMAIN nodes : IsPrefix(nodes[id].messages, nodes'[id].messages)]_vars

\* ============================================================================
\* Specification of the admission of remote calls in one round with forking:
\* the generator, the simulator and the evaluator each own an
\* asyncio.Semaphore(max_concurrency); every remote call waits for the
\* semaphore of its component, is in flight and returns. max_concurrency and
\* the number of leaves are drawn in Init.
\* ============================================================================
Components == {"generator", "simulator", "evaluator"}

\* a coroutine that makes its remote calls through one component, one after
\* the other; calls_left counts the calls after the current one
RemoteCalls(component, node, calls_left) ==
    [component |-> component, node |-> node, state |-> "waiting",
     calls_left |-> calls_left, abandoned |-> FALSE]

\* DTSEngine.__init__: each component gets its own semaphore of max_concurrency
NewGate(c) == [sem |-> [k \in Components |-> c.max_concurrency], calls |-> <<>>]

InFlight(g) == {i \in 1..Len(g.calls) : g.calls[i].state = "in flight"}

\* the coroutines of component the engine is waiting for
Pending(g, component) ==
    {i \in 1..Len(g.calls) : /\ g.calls[i].component = component
                             /\ ~g.calls[i].abandoned
                             /\ g.calls[i].state # "returned"}

RECURSIVE Abandon(_)
\* the coroutines after the timeout of as_completed: the unfinished ones run on
Abandon(calls) ==
    IF calls = <<>> THEN <<>>
    ELSE <<IF Head(calls).state # "returned"
           THEN [Head(calls) EXCEPT !.abandoned = TRUE]
           ELSE Head(calls)>> \o Abandon(Tail(calls))

RECURSIVE Completed(_)
\* the nodes whose expansion coroutine has returned, in the order of the tasks
Completed(calls) ==
    IF calls = <<>> THEN <<>>
    ELSE (IF Head(calls).component = "simulator" /\ Head(calls).state = "returned"
             /\ ~Head(calls).abandoned
          THEN <<Head(calls).node>> ELSE <<>>) \o Completed(Tail(calls))

RECURSIVE JudgeCalls(_)
\* _judge_single for every node of the batch: three judge calls each
JudgeCalls(batch) ==
    IF batch = <<>> THEN <<>>
    ELSE [j \in 1..JudgesPerNode |-> RemoteCalls("evaluator", Head(batch), 0)]
         \o JudgeCalls(Tail(batch))

InitGate ==
    /\ IdleTree /\ IdleAgg /\ IdleRun /\ IdleRound /\ IdleCall /\ IdleEmit
    /\ bp_calls = NoCalls(nodes)
    /\ \E m \in 1..MaxConcurrency :
          cfg = [BaseConfig EXCEPT !.max_concurrency = m, !.user_variability = TRUE,
                                   !.scoring_mode = "absolute"]
    /\ \E n \in 1..MaxLeaves :
          gate = [NewGate(cfg) EXCEPT
                     !.calls = [i \in 1..n |-> RemoteCalls("generator", i, 0)]]
    /\ pc = "intents"

\* "async with self._sem": a waiting call acquires the semaphore of its
\* component and llm.complete is in flight
Acquire ==
    /\ \E i \in 1..Len(gate.calls) :
         /\ gate.calls[i].state = "waiting"
         /\ gate.sem[gate.calls[i].component] > 0
         /\ gate' = [gate EXCEPT !.sem[gate.calls[i].component] = @ - 1,
                                 !.calls[i].state = "in flight"]
    /\ UNCHANGED <<treeVars, cfg, pc, roundVars, aggVars, bp_calls, runVars, call, emit>>

\* llm.complete returns or raises: the semaphore is released; the coroutine
\* goes on to its next call or returns
Release ==
    /\ \E i \in 1..Len(gate.calls) :
         /\ gate.calls[i].state = "in flight"
         /\ gate' = [gate EXCEPT
                        !.sem[gate.calls[i].component] = @ + 1,
                        !.calls[i].state = IF gate.calls[i].calls_left > 0
                                           THEN "waiting" ELSE "returned",
                        !.calls[i].calls_left = IF @ > 0 THEN @ - 1 ELSE @]
    /\ UNCHANGED <<treeVars, cfg, pc, roundVars, aggVars, bp_calls, runVars, call, emit>>

\* expand_nodes: the intents are gathered; one expansion coroutine per child,
\* each with the rephrase call and the assistant call of its first turn
IntentsGathered ==
    /\ pc = "intents"
    /\ Pending(gate, "generator") = {}
    /\ gate' = [gate EXCEPT !.calls = [i \in 1..Len(gate.calls) |->
                                          RemoteCalls("simulator", i, 1)]]
    /\ pc' = "expand"
    /\ UNCHANGED <<treeVars, cfg, roundVars, aggVars, bp_calls, runVars, call, emit>>

\* expand_nodes: as_completed has yielded every expansion; the evaluator starts
ExpandGathered ==
    /\ pc = "expand"
    /\ Pending(gate, "simulator") = {}
    /\ expanded' = Completed(gate.calls)
    /\ gate' = [gate EXCEPT !.calls = JudgeCalls(Completed(gate.calls))]
    /\ pc' = "judge"
    /\ UNCHANGED <<treeVars, cfg, scores, survivors, aggVars, bp_calls, runVars, call, emit>>

\* expand_nodes: the timeout of as_completed fires; the unfinished expansions
\* are not cancelled, and the evaluator starts on the finished ones
ExpandTimeout ==
    /\ pc = "expand"
    /\ Pending(gate, "simulator") # {}
    /\ expanded' = Completed(gate.calls)
    /\ gate' = [gate EXCEPT
                   !.calls = Filter(Abandon(gate.calls),
                                    {c \in Range(Abandon(gate.calls)) : c.abandoned})
                             \o JudgeCalls(Completed(gate.calls))]
    /\ pc' = "judge"
    /\ UNCHANGED <<treeVars, cfg, scores, survivors, aggVars, bp_calls, runVars, call, emit>>

\* evaluate_absolute: every judge call has returned
JudgesGathered ==
    /\ pc = "judge"
    /\ Pending(gate, "evaluator") = {}
    /\ pc' = "done"
    /\ UNCHANGED <<treeVars, cfg, roundVars, aggVars, bp_calls, runVars, gate, call, emit>>

NextGate ==
    \/ Acquire \/ Release \/ IntentsGathered \/ ExpandGathered \/ ExpandTimeout
    \/ JudgesGathered

SpecGate == InitGate /\ [][NextGate]_vars

\* C8 as stated: at every moment the remote calls in flight, over the
\* generator, the simulator and the evaluator together, are at most
\* max_concurrency.
TotalInFlightBounded == Cardinality(InFlight(gate)) <= cfg.max_concurrency

\* ------------------------------------------------------- one expansion call
\* One coroutine of expand_nodes on its own: _expand_linear on a strategy
\* node or _expand_with_intent on a forked child, with up to MaxTurns turns.
\* hist.calls is the log of the calls the coroutine issued, with their replies.
MaxTurns == 3

InitExpand ==
    /\ IdleAgg /\ IdleGate /\ IdleRound /\ IdleCall /\ IdleEmit
    /\ root_id = 0
    /\ pc = "expand"
    /\ run = [round_num |-> 1, rounds |-> 1, total_pruned |-> 0, result |-> NoResult,
              forked |-> FALSE, expandable |-> <<>>, judging |-> <<>>, results |-> <<>>]
    /\ \E n \in StrategyCounts \ {0}, kind \in {"linear", "intent"}, turns \in 1..MaxTurns :
          /\ nodes = IF kind = "linear" THEN StrategyTree(n)
                     ELSE ForkChildren(StrategyTree(n), <<n>>, [id \in {n} |-> 1])
          /\ cfg = [BaseConfig EXCEPT !.turns_per_branch = turns]
          /\ tasks = <<ExpansionTask(IF kind = "linear" THEN n ELSE n + 1, kind, nodes)>>
    /\ hist = [calls |-> <<>>]
    /\ bp_calls = NoCalls(nodes)

\* the coroutine runs to its next turn boundary
ExpandCall ==
    /\ pc = "expand"
    /\ tasks[1].state = "running"
    /\ \E rephrased \in RephraseResponses, user_response \in UserResponses,
          assistant_response \in AssistantResponses :
          LET t == tasks[1]
              r == expand_turn(t, nodes[t.node], cfg.turns_per_branch,
                               rephrased, user_response, assistant_response)
          IN  /\ tasks' = <<r.task>>
              /\ nodes' = [nodes EXCEPT ![t.node] = r.node]
              /\ hist' = [calls |-> hist.calls \o r.calls]
    /\ UNCHANGED <<root_id, cfg, pc, roundVars, aggVars, bp_calls, run, gate, call, emit>>

NextExpand == ExpandCall

SpecExpand == InitExpand /\ [][NextExpand]_vars

\* C11 Early termination: once a simulated user turn of an expansion call
\* satisfies the termination predicate, that call was the last one the
\* expansion issued, the node is TERMINAL, the user turn is the last message
\* of the node's trajectory and the coroutine has returned.
EarlyTermination ==
    \A k \in 1..Len(hist.calls) :
        (hist.calls[k].call = "user" /\ should_terminate(hist.calls[k].reply))
            => /\ k = Len(hist.calls)
               /\ tasks[1].state = "returned"
               /\ nodes[tasks[1].node].status = TERMINAL
               /\ nodes[tasks[1].node].messages # <<>>
               /\ nodes[tasks[1].node].messages[Len(nodes[tasks[1].node].messages)]
                      = hist.calls[k].reply

\* the user ends the conversation while turns of the expansion are left
EarlyTerminationWitness ==
    /\ hist.calls # <<>>
    /\ hist.calls[Len(hist.calls)].call = "user"
    /\ should_terminate(hist.calls[Len(hist.calls)].reply)
    /\ tasks[1].turn + 1 < cfg.turns_per_branch
    /\ nodes[tasks[1].node].status = TERMINAL

\* ------------------------------------------------- retry of one remote call
\* One logical remote call of a component: the simulator's
\* _call_llm_with_retry around LLM.complete, or the _call_llm_json_inner of
\* the evaluator and the generator under llm_retry, which call LLM.complete
\* with structured_output=True. Every step is one request to the provider.
max_attempts == 3
max_retries == 3
max_json_retries == 3

\* getattr(error, "status_code", None) of an APIError that has no status code
\* (a timeout, a connection failure)
NoStatus == 0

CallSites == {"simulator", "evaluator", "generator"}

\* what the provider does with one request: a completion with a body (a JSON
\* document, other text, nothing) or an APIError
Replies ==
    [status : {200}, body : {"json", "text", ""}]
        \cup {[status |-> 401, body |-> "authentication"],
              [status |-> 429, body |-> "rate limit"],
              [status |-> 404, body |-> "model not found"],
              [status |-> 400, body |-> "invalid request"],
              [status |-> 500, body |-> "server error"],
              [status |-> NoStatus, body |-> "timeout"],
              [status |-> NoStatus, body |-> "connection"]}

\* LLM._map_api_error
map_api_error(status) ==
    IF status = 401 THEN "AuthenticationError"
    ELSE IF status = 429 THEN "RateLimitError"
    ELSE IF status = 404 THEN "ModelNotFoundError"
    ELSE IF status = 400 THEN "InvalidRequestError"
    ELSE IF status # NoStatus /\ 500 <= status /\ status < 600 THEN "ServerError"
    ELSE "LLMError"

\* LLM.complete, one pass of its request loop: it returns the completion,
\* raises, or goes round again after an empty or unparsable body
complete(structured_output, json_try, reply) ==
    IF reply.status # 200
    THEN [outcome |-> "raise", value |-> map_api_error(reply.status)]
    ELSE IF ~structured_output \/ reply.body = "json"
    THEN [outcome |-> "return", value |-> reply.body]
    ELSE IF json_try < max_json_retries - 1
    THEN [outcome |-> "continue", value |-> reply.body]
    ELSE [outcome |-> "raise", value |-> "JSONParseError"]

structured_output(site) == site # "simulator"

\* the function under the retry policy: _attempt of _call_llm_with_retry, which
\* raises on empty content, or _call_llm_json_inner
attempt(site, json_try, reply) ==
    LET completion == complete(structured_output(site), json_try, reply)
    IN  IF site = "simulator" /\ completion.outcome = "return" /\ completion.value = ""
        THEN [outcome |-> "raise", value |-> "LLMEmptyResponseError"]
        ELSE completion

\* retry_if_exception_type(...) of the call site
retry_if_exception_type(site) ==
    IF site = "simulator" THEN {"LLMEmptyResponseError"}
    ELSE {"RateLimitError", "ServerError", "TimeoutError", "ConnectionError", "JSONParseError"}

\* stop_after_attempt(...) of the call site
stop_after_attempt(site) == IF site = "simulator" THEN max_retries ELSE max_attempts

\* a retry policy that retries whatever was raised while attempts are left
retry_any(c, fault) ==
    IF c.attempt < stop_after_attempt(c.site)
    THEN [c EXCEPT !.faults = Append(@, fault), !.attempt = @ + 1, !.json_try = 0]
    ELSE [c EXCEPT !.faults = Append(@, fault), !.state = "raised", !.result = fault]

\* tenacity's retry(retry=..., stop=..., reraise=True) after an attempt raised
retry(c, fault) ==
    IF fault \in retry_if_exception_type(c.site) /\ c.attempt < stop_after_attempt(c.site)
    THEN [c EXCEPT !.faults = Append(@, fault), !.attempt = @ + 1, !.json_try = 0]
    ELSE [c EXCEPT !.faults = Append(@, fault), !.state = "raised", !.result = fault]

\* the call when it is issued: first attempt, nothing sent
NewCall(site) ==
    [site |-> site, state |-> "calling", attempt |-> 1, json_try |-> 0, requests |-> 0,
     faults |-> <<>>, last |-> [status |-> 200, body |-> "json"], result |-> None]

InitRetry ==
    /\ IdleTree /\ IdleCfg /\ IdleRound /\ IdleAgg /\ IdleRun /\ IdleGate /\ IdleEmit
    /\ bp_calls = NoCalls(nodes)
    /\ pc = "retry"
    /\ \E site \in CallSites : call = NewCall(site)

\* one request is sent and answered
Request ==
    /\ pc = "retry"
    /\ call.state = "calling"
    /\ \E reply \in Replies :
          LET sent == [call EXCEPT !.requests = @ + 1, !.last = reply]
              a == attempt(call.site, call.json_try, reply)
          IN  call' = IF a.outcome = "continue" THEN [sent EXCEPT !.json_try = @ + 1]
                      ELSE IF a.outcome = "return"
                      THEN [sent EXCEPT !.state = "returned", !.result = a.value]
                      ELSE retry(sent, a.value)
    /\ UNCHANGED <<treeVars, cfg, pc, roundVars, aggVars, bp_calls, runVars, gate, emit>>

NextRetry == Request

SpecRetry == InitRetry /\ [][NextRetry]_vars

\* the faults the failure model calls transient, by what the provider did
TransientReply(site, reply) ==
    \/ reply.status \in {429, 500}
    \/ reply.status = NoStatus
    \/ structured_output(site) /\ reply.status = 200 /\ reply.body # "json"

\* C15 as stated: a remote call of expansion or evaluation that fails with a
\* transient fault (rate limit, server-side fault, timeout, connection
\* failure, empty or malformed structured output) has been retried up to the
\* attempt bound when its failure is reported to the branch.
TransientFaultsRetried ==
    (call.state = "raised" /\ TransientReply(call.site, call.last))
        => call.attempt = stop_after_attempt(call.site)

\* C16 Retry is bounded and selective at every call site: a call makes at
\* most 3 attempts; only a fault the call site classifies as retryable is
\* followed by another attempt, any other fault ends the call at the attempt
\* that raised it; and a call whose attempts are used up raises the fault of
\* its last attempt to its caller.
RetryBoundedSelective ==
    call.state # "idle"
        => /\ call.attempt <= 3
           /\ Len(call.faults) <= call.attempt
           /\ \A k \in 1..Len(call.faults) :
                 \/ call.faults[k] \in retry_if_exception_type(call.site)
                 \/ k = Len(call.faults) /\ call.state = "raised"
           /\ call.state = "raised"
                 => /\ call.faults # <<>>
                    /\ call.result = call.faults[Len(call.faults)]
                    /\ call.result \in retry_if_exception_type(call.site)
                          => call.attempt = 3 /\ Len(call.faults) = 3
                    /\ call.result \notin retry_if_exception_type(call.site)
                          => Len(call.faults) = call.attempt

\* three attempts raised retryable faults and the last one reached the caller
RetryExhaustedWitness ==
    /\ call.state = "raised"
    /\ call.attempt = 3
    /\ Len(call.faults) = 3
    /\ call.result \in retry_if_exception_type(call.site)

\* a fault the call site does not retry ended the call after earlier retries
RetryNotRetriedWitness ==
    /\ call.state = "raised"
    /\ call.attempt = 2
    /\ call.result \notin retry_if_exception_type(call.site)

\* ------------------------------------------------------- the event callback
\* DTSEngine.run with an event callback set by set_event_callback: every
\* _emit of the run creates a task that runs emit_event, and the tasks run
\* when the run is suspended. emit.callback is None (no callback), "ok" (a
\* callback that returns) or "raises" (a callback that raises on some events).
Callbacks == {None, "ok", "raises"}

\* DTSEngine._emit inlined: the callback is called where the event is
\* emitted, an exception of the callback leaves _emit
engine_emit_inline(em, events) ==
    IF em.callback = None \/ events = <<>> THEN em
    ELSE IF em.callback = "raises" THEN Raised("CallbackError")
    ELSE em

\* DTSEngine._emit for the events one step emits: a task per event when a
\* callback is set, nothing otherwise; it returns at once
engine_emit(em, events) ==
    IF em.callback = None THEN em
    ELSE [em EXCEPT !.pending = @ \o events]

\* emit_event(callback, event_type, data, logger): the callback is called and
\* awaited; an Exception it raises is logged as a warning and not passed on
emit_event(callback, raises) ==
    IF callback = None THEN [outcome |-> "return", warned |-> FALSE]
    ELSE [outcome |-> "return", warned |-> raises]

Repeat(n, event) == [i \in 1..n |-> event]

\* the events of a step of the run, in the order they are emitted
RoundEvents(c) ==
    <<"round_started">>
        \o (IF c.user_intents_per_branch > 1 THEN <<"phase">> ELSE <<>>)
        \o <<"phase">>

IntentEvents(before, after) ==
    Repeat(Cardinality(DOMAIN after) - Cardinality(DOMAIN before), "intent_generated")

GatherEvents(batch) == Repeat(Len(batch), "node_added") \o <<"phase">>

ScoredEvents(batch, sc) ==
    Repeat(Cardinality({id \in Range(batch) : id \in DOMAIN sc}), "node_updated")

PruneEvents(ns, batch) ==
    <<"phase">>
        \o (IF \E id \in Range(batch) : ns[id].status = PRUNED
            THEN <<"nodes_pruned">> ELSE <<>>)
        \o <<"token_update">>

ReturnEvents(r) ==
    (IF r.round_num < r.rounds THEN <<"round_started">> ELSE <<>>) \o <<"phase">>

RECURSIVE InitEvents(_)
\* _initialize_tree: the events emitted after its last await, two for each of
\* the strategies
InitEvents(strategies) ==
    IF strategies = 0 THEN <<>>
    ELSE <<"strategy_generated", "node_added">> \o InitEvents(strategies - 1)

\* an exception leaves _emit and with it DTSEngine.run
EmitRaised(e) ==
    /\ pc' = "raised"
    /\ run' = [run EXCEPT !.result = e]
    /\ UNCHANGED <<treeVars, cfg, roundVars, aggVars, bp_calls, tasks, hist, gate, call, emit>>

InitEmit ==
    /\ StartRun
    /\ run.rounds = 1
    /\ \E callback \in Callbacks :
          emit = engine_emit([callback |-> callback, pending |-> <<>>, warned |-> FALSE],
                             InitEvents(Cardinality(DOMAIN nodes) - 1))

\* The steps of the run with their events: the first _emit of the step is
\* reached before the step has changed anything, the others follow it.
EmitRoundLinear ==
    \E first \in {engine_emit(emit, RoundEvents(cfg))} :
        IF IsRaised(first) THEN EmitRaised(first)
        ELSE RoundLinearStep /\ emit' = engine_emit(emit, RoundEvents(cfg))

EmitRoundForked ==
    \E first \in {engine_emit(emit, RoundEvents(cfg))} :
        IF IsRaised(first) THEN EmitRaised(first)
        ELSE RoundForkedStep /\ emit' = engine_emit(emit, RoundEvents(cfg))

EmitIntents ==
    \E first \in {engine_emit(emit, <<>>)} :
        IF IsRaised(first) THEN EmitRaised(first)
        ELSE IntentsStep /\ emit' = engine_emit(emit, IntentEvents(nodes, nodes'))

EmitExpandTurn ==
    \E first \in {engine_emit(emit, <<>>)} :
        IF IsRaised(first) THEN EmitRaised(first)
        ELSE ExpandTurnStep /\ emit' = engine_emit(emit, <<>>)

EmitGatherLinear ==
    \E first \in {engine_emit(emit, <<"phase">>)} :
        IF IsRaised(first) THEN EmitRaised(first)
        ELSE GatherLinearStep /\ emit' = engine_emit(emit, GatherEvents(expanded'))

EmitGatherForked ==
    \E first \in {engine_emit(emit, <<"phase">>)} :
        IF IsRaised(first) THEN EmitRaised(first)
        ELSE GatherForkedStep /\ emit' = engine_emit(emit, GatherEvents(expanded'))

EmitGatherTimeout ==
    \E first \in {engine_emit(emit, <<"phase">>)} :
        IF IsRaised(first) THEN EmitRaised(first)
        ELSE GatherTimeoutStep /\ emit' = engine_emit(emit, GatherEvents(expanded'))

EmitJudgeAbsolute ==
    \E first \in {engine_emit(emit, <<>>)} :
        IF IsRaised(first) THEN EmitRaised(first)
        ELSE JudgeAbsoluteStep /\ emit' = engine_emit(emit, <<>>)

EmitJudgeComparative ==
    \E first \in {engine_emit(emit, <<>>)} :
        IF IsRaised(first) THEN EmitRaised(first)
        ELSE JudgeComparativeStep /\ emit' = engine_emit(emit, <<>>)

EmitMerge ==
    \E first \in {engine_emit(emit, <<>>)} :
        IF IsRaised(first) THEN EmitRaised(first)
        ELSE MergeStep /\ emit' = engine_emit(emit, ScoredEvents(expanded, scores'))

EmitRunPrune ==
    \E first \in {engine_emit(emit, <<"phase">>)} :
        IF IsRaised(first) THEN EmitRaised(first)
        ELSE RunPruneStep /\ emit' = engine_emit(emit, PruneEvents(nodes', expanded))

EmitReturn ==
    \E first \in {engine_emit(emit, ReturnEvents(run))} :
        IF IsRaised(first) THEN EmitRaised(first)
        ELSE ReturnStep /\ emit' = engine_emit(emit, ReturnEvents(run))

\* a callback task runs: emit_event calls the callback with the oldest
\* pending event
DeliverEvent ==
    /\ emit.pending # <<>>
    /\ \E raises \in (IF emit.callback = "raises" THEN BOOLEAN ELSE {FALSE}) :
          emit' = [emit EXCEPT !.pending = Tail(@),
                               !.warned = @ \/ emit_event(emit.callback, raises).warned]
    /\ UNCHANGED <<treeVars, cfg, pc, roundVars, aggVars, bp_calls, runVars, gate, call>>

NextEmit ==
    \/ EmitRoundLinear \/ EmitRoundForked \/ EmitIntents \/ EmitExpandTurn
    \/ EmitGatherLinear \/ EmitGatherForked \/ EmitGatherTimeout
    \/ EmitJudgeAbsolute \/ EmitJudgeComparative \/ EmitMerge \/ EmitRunPrune
    \/ EmitReturn \/ DeliverEvent

SpecEmit == InitEmit /\ [][NextEmit]_vars

\* a step of the run of an engine without a callback
RunStep ==
    \/ RoundLinearStep \/ RoundForkedStep \/ IntentsStep \/ ExpandTurnStep
    \/ GatherLinearStep \/ GatherForkedStep \/ GatherTimeoutStep
    \/ JudgeAbsoluteStep \/ JudgeComparativeStep \/ MergeStep \/ RunPruneStep
    \/ ReturnStep

\* C17 The callback is invisible in the outcome: whether the engine has no
\* callback, one that returns or one that raises on some events, the run
\* never raises, and every step changes the tree, the scores and the result
\* exactly as a step of the run without a callback does on the same replies,
\* or leaves them all unchanged.
CallbackInvisible ==
    /\ [][RunStep \/ UNCHANGED <<treeVars, cfg, pc, roundVars, aggVars, bp_calls, runVars,
                                  gate, call>>]_vars
    /\ [](pc # "raised")

\* the callback raised on an event and the run returned its result
CallbackRaisedWitness ==
    /\ pc = "done"
    /\ emit.callback = "raises"
    /\ emit.warned
    /\ run.result.best_node_id # NoId
    /\ run.round_num >= 1

\* ============================================================================
\* Specification of the evaluation subsystem on one batch: the prune
\* threshold, the scoring mode and a batch of siblings under the root are
\* drawn in Init; the replies of the judges and of the ranking call are drawn
\* by the action that consumes them.
\* ============================================================================
\* the replies of the three judge calls of one node: each a total score or a
\* failure, and one panel with a total_score that is not a number
PanelReplies == [1..JudgesPerNode -> {5, 8, FAIL}] \cup {<<8, BAD, 5>>}

InitScore ==
    /\ IdleAgg /\ IdleGate /\ IdleCall /\ IdleEmit
    /\ pc = "score"
    /\ root_id = 0
    /\ \E n \in StrategyCounts \ {0} :
          /\ nodes = [i \in 0..n |-> IF i = 0 THEN StrategyTree(n)[i]
                                     ELSE AfterTurns(StrategyTree(n)[i], ACTIVE)]
          /\ expanded = Ids(n)
    /\ \E t \in ThresholdValues, m \in {"absolute", "comparative"} :
          cfg = [BaseConfig EXCEPT !.prune_threshold = t, !.scoring_mode = m]
    /\ scores = <<>> /\ survivors = <<>>
    /\ run = [round_num |-> 1, rounds |-> 1, total_pruned |-> 0, result |-> NoResult,
              forked |-> FALSE, expandable |-> expanded, judging |-> <<>>, results |-> <<>>]
    /\ tasks = <<>>
    /\ hist = [panels |-> <<>>, response |-> None, entries |-> <<>>]
    /\ bp_calls = NoCalls(nodes)

\* evaluate_absolute(nodes): one _judge_single per node, gathered, a raised
\* judging gives the zero score
EvaluateAbsolute ==
    /\ pc = "score"
    /\ ScoringTasks(nodes, expanded, cfg) = AbsoluteTasks(expanded)
    /\ \E panels \in [Range(expanded) -> PanelReplies] :
       \E results \in {[i \in 1..Len(expanded) |->
                           judge_single(panels[expanded[i]], cfg.prune_threshold)]} :
       \E merged \in {MergeAbsolute(expanded, gather(results).results, cfg.prune_threshold)} :
          /\ scores' = merged
          /\ nodes' = WriteScores(nodes,
                         [id \in {expanded[i] : i \in {j \in 1..Len(expanded) :
                                                          ~IsRaised(results[j])}} |->
                             merged[id].aggregated_score])
          /\ hist' = [panels |-> panels, response |-> None, entries |-> <<>>]
    /\ pc' = "scored"
    /\ UNCHANGED <<root_id, cfg, expanded, survivors, aggVars, bp_calls, run, tasks, gate,
                   call, emit>>

\* evaluate_comparative(nodes) on two or more nodes: one task per sibling
\* group (_judge_single_wrapped for a group of one), gathered and merged
EvaluateComparative ==
    /\ pc = "score"
    /\ ScoringTasks(nodes, expanded, cfg) = ComparativeTasks(nodes, expanded)
    /\ ScoringTasks(nodes, expanded, cfg) # AbsoluteTasks(expanded)
    /\ \E response \in RankingResponses,
          entries \in [Range(expanded) -> RankEntries],
          panels \in [Range(expanded) -> PanelReplies] :
       \E judging \in {ComparativeTasks(nodes, expanded)} :
       /\ response # "ranking" => \A id \in Range(expanded) : entries[id] = 8
       /\ (response # "no ranking" /\ \A k \in 1..Len(judging) : judging[k].kind = "group")
             => \A id \in Range(expanded) : panels[id] = <<8, 8, 5>>
       /\ \E results \in {[k \in 1..Len(judging) |->
                              IF judging[k].kind = "single"
                              THEN judge_single_wrapped(judging[k].group[1],
                                                        panels[judging[k].group[1]],
                                                        cfg.prune_threshold)
                              ELSE judge_group_comparative(judging[k].group, response, entries,
                                                           panels, cfg.prune_threshold)]} :
             /\ scores' = MergeComparative(gather([k \in 1..Len(judging) |->
                                                      results[k].result]).results)
             /\ nodes' = WriteScores(nodes,
                            [id \in UNION {DOMAIN results[k].written : k \in 1..Len(judging)} |->
                                results[CHOOSE k \in 1..Len(judging) :
                                           id \in DOMAIN results[k].written].written[id]])
             /\ hist' = [panels |-> panels, response |-> response, entries |-> entries]
    /\ pc' = "scored"
    /\ UNCHANGED <<root_id, cfg, expanded, survivors, aggVars, bp_calls, run, tasks, gate,
                   call, emit>>

NextScore == EvaluateAbsolute \/ EvaluateComparative

SpecScore == InitScore /\ [][NextScore]_vars

\* C21 as stated: every AggregatedScore the evaluation subsystem puts into a
\* score map has exactly three individual scores, pass_votes equal to the
\* number of them that are >= its pass_threshold, and passed true exactly
\* when pass_votes >= 2, for every prune_threshold.
ScoreRecordsConsistent ==
    pc = "scored" =>
        \A id \in DOMAIN scores :
            /\ Len(scores[id].individual_scores) = JudgesPerNode
            /\ scores[id].pass_votes
                  = PassVotes(scores[id].individual_scores, scores[id].pass_threshold)
            /\ scores[id].passed <=> scores[id].pass_votes >= 2

\* the three scores of a panel, a failed call counted as 0
PanelScores(panel) == [i \in 1..Len(panel) |-> IF panel[i] = FAIL THEN 0 ELSE panel[i]]

RECURSIVE prune_recursive(_, _, _), prune_children(_, _, _)
\* _prune_recursive(nid) on st = the nodes and the count so far
prune_recursive(st, nid, reason) ==
    LET node == st.nodes[nid]
    IN  With(IF node.status # PRUNED
             THEN [nodes |-> [st.nodes EXCEPT ![nid] = [node EXCEPT !.status = PRUNED,
                                                                     !.prune_reason = reason]],
                   count |-> st.count + 1]
             ELSE st,
             LAMBDA marked : prune_children(marked, node.children, reason))

\* for child_id in node.children: _prune_recursive(child_id)
prune_children(st, children, reason) ==
    IF children = <<>> THEN st
    ELSE With(prune_recursive(st, Head(children), reason),
              LAMBDA done : prune_children(done, Tail(children), reason))

\* prune_subtree that marks and counts every node of the subtree, pruned
\* before or not
prune_subtree_recount(ns, node_id, reason) ==
    [nodes |-> [id \in DOMAIN ns |->
                   IF id \in Subtree(ns, node_id)
                   THEN [ns[id] EXCEPT !.status = PRUNED, !.prune_reason = reason]
                   ELSE ns[id]],
     count |-> Cardinality(Subtree(ns, node_id))]

\* DialogueTree.prune_subtree(node_id, reason): the nodes after the call and
\* the count it returns
prune_subtree(ns, node_id, reason) ==
    prune_recursive([nodes |-> ns, count |-> 0], node_id, reason)

\* DialogueTree.prune_node(node_id, reason)
prune_node(ns, node_id, reason) ==
    [ns EXCEPT ![node_id] = [@ EXCEPT !.status = PRUNED, !.prune_reason = reason]]

RECURSIVE TreeOf(_, _)
\* the tree of the nodes 0..n in which parent[i] is the parent of node i
TreeOf(parent, n) ==
    IF n = 0 THEN TreeCreate(0, DialogueNode(NoId, 0, None, None, <<"U">>))
    ELSE add_child(TreeOf(parent, n - 1), parent[n], n,
                   DialogueNode(NoId, 0, "S", None, <<"U">>))

PruneReasons == {NoReason, [text |-> "manual"]}

InitSubtree ==
    /\ IdleAgg /\ IdleCfg /\ IdleGate /\ IdleCall /\ IdleEmit /\ IdleRound
    /\ pc = "subtree"
    /\ root_id = 0
    /\ \E n \in 0..(MaxNodes - 1) :
       \E parent \in [1..n -> 0..(n - 1)], st \in [0..n -> {ACTIVE, TERMINAL, PRUNED}] :
          /\ \A i \in 1..n : parent[i] < i
          /\ nodes = [i \in 0..n |->
                         IF st[i] = PRUNED
                         THEN prune_node(TreeOf(parent, n), i, [text |-> "earlier"])[i]
                         ELSE [TreeOf(parent, n)[i] EXCEPT !.status = st[i]]]
    /\ run = [round_num |-> 0, rounds |-> 0, total_pruned |-> 0, result |-> NoResult,
              forked |-> FALSE, expandable |-> <<>>, judging |-> <<>>, results |-> <<>>]
    /\ tasks = <<>>
    /\ hist = [before |-> nodes, node |-> NoId, count |-> 0, calls |-> 0]
    /\ bp_calls = NoCalls(nodes)

\* tree.prune_subtree(n, reason)
PruneSubtree ==
    /\ pc = "subtree"
    /\ \E n \in DOMAIN nodes, reason \in PruneReasons :
       \E r \in {prune_subtree(nodes, n, reason)} :
          /\ nodes' = r.nodes
          /\ hist' = [before |-> nodes, node |-> n, count |-> r.count, calls |-> 1]
    /\ pc' = "once"
    /\ UNCHANGED <<root_id, cfg, roundVars, aggVars, bp_calls, run, tasks, gate, call, emit>>

\* the call repeated at once on the same node
PruneSubtreeAgain ==
    /\ pc = "once"
    /\ \E reason \in PruneReasons :
       \E r \in {prune_subtree(nodes, hist.node, reason)} :
          /\ nodes' = r.nodes
          /\ hist' = [before |-> nodes, node |-> hist.node, count |-> r.count, calls |-> 2]
    /\ pc' = "twice"
    /\ UNCHANGED <<root_id, cfg, roundVars, aggVars, bp_calls, run, tasks, gate, call, emit>>

NextSubtree == PruneSubtree \/ PruneSubtreeAgain

SpecSubtree == InitSubtree /\ [][NextSubtree]_vars

\* C23 prune_subtree(n) leaves every node of n's subtree PRUNED, returns the
\* number of subtree nodes that were not PRUNED before the call and leaves
\* every node outside the subtree as it was; repeated at once it returns 0
\* and changes no status and no prune_reason.
PruneSubtreeContract ==
    /\ hist.calls >= 1 =>
          LET sub == Subtree(hist.before, hist.node)
          IN  /\ \A id \in sub : nodes[id].status = PRUNED
              /\ hist.count = Cardinality({id \in sub : hist.before[id].status # PRUNED})
              /\ \A id \in DOMAIN nodes \ sub : nodes[id] = hist.before[id]
              /\ DOMAIN nodes = DOMAIN hist.before
    /\ hist.calls = 2 =>
          /\ hist.count = 0
          /\ \A id \in DOMAIN nodes :
                /\ nodes[id].status = hist.before[id].status
                /\ nodes[id].prune_reason = hist.before[id].prune_reason

\* the call was repeated on a subtree of two or more nodes of which one was
\* pruned earlier, next to a node outside the subtree that is still ACTIVE
PruneSubtreeWitness ==
    /\ pc = "twice"
    /\ Cardinality(Subtree(nodes, hist.node)) >= 2
    /\ \E id \in Subtree(nodes, hist.node) : nodes[id].prune_reason = [text |-> "earlier"]
    /\ \E id \in Subtree(nodes, hist.node) : nodes[id].prune_reason = [text |-> "manual"]
    /\ \E id \in DOMAIN nodes \ Subtree(nodes, hist.node) : nodes[id].status = ACTIVE

\* ============================================================================
\* Specification of the start of a run: the numeric knobs are drawn, the
\* configuration is built from a SearchRequest (the WebSocket server) or
\* directly as a DTSConfig (main.py), the engine is constructed and run goes
\* as far as the tree _initialize_tree returns.
\* ============================================================================
CountValues == {0 - 1, 0, 1}
ThresholdInputs == {0 - 1, 0, 6, 11}

\* SearchRequest(**config_data): the pydantic bounds of its fields
SearchRequest(r) ==
    IF /\ r.init_branches \in 1..20
       /\ r.turns_per_branch \in 1..20
       /\ r.user_intents_per_branch \in 1..10
       /\ r.prune_threshold >= 0 /\ r.prune_threshold <= 10
       /\ r.rounds \in 1..10
    THEN r
    ELSE Raised("ValidationError")

\* DTSConfig(...): a dataclass, the values are stored as given
DTSConfig(init_branches, turns_per_branch, user_intents_per_branch, prune_threshold, min_survivors, max_concurrency) ==
    [init_branches |-> init_branches]
        @@ [BaseConfig EXCEPT !.turns_per_branch = turns_per_branch,
                              !.user_intents_per_branch = user_intents_per_branch,
                              !.prune_threshold = prune_threshold,
                              !.min_survivors = min_survivors,
                              !.max_concurrency = max_concurrency]

\* create_dts_config(request): min_survivors and max_concurrency keep the
\* defaults of DTSConfig
create_dts_config(request) ==
    DTSConfig(request.init_branches, request.turns_per_branch,
              request.user_intents_per_branch, request.prune_threshold, 1, 16)

\* what the claim calls a configuration to reject
InvalidKnobs(r) ==
    \/ r.init_branches <= 0 \/ r.turns_per_branch <= 0 \/ r.user_intents_per_branch <= 0
    \/ r.rounds <= 0 \/ r.max_concurrency <= 0 \/ r.min_survivors <= 0
    \/ r.prune_threshold < 0 \/ r.prune_threshold > 10

InitConfig ==
    /\ IdleAgg /\ IdleCfg /\ IdleGate /\ IdleCall /\ IdleEmit /\ IdleRound
    /\ pc = "request"
    /\ root_id = NoId
    /\ nodes = <<>>
    /\ run = [round_num |-> 0, rounds |-> 0, total_pruned |-> 0, result |-> NoResult,
              forked |-> FALSE, expandable |-> <<>>, judging |-> <<>>, results |-> <<>>]
    /\ tasks = <<>>
    /\ \E entry \in {"server", "main"} :
       \E r \in [init_branches : CountValues, turns_per_branch : CountValues,
                 user_intents_per_branch : CountValues, rounds : CountValues,
                 max_concurrency : CountValues \cup {16}, min_survivors : CountValues,
                 prune_threshold : ThresholdInputs] :
          /\ entry = "server" => r.max_concurrency = 16 /\ r.min_survivors = 1
          /\ entry = "main" => r.max_concurrency # 16
          /\ hist = [entry |-> entry, request |-> r, calls |-> 0]
    /\ bp_calls = <<>>

\* handle_search: the request is validated, the configuration is created
HandleSearch ==
    /\ pc = "request"
    /\ hist.entry = "server"
    /\ IF IsRaised(SearchRequest(hist.request))
       THEN /\ pc' = "rejected"
            /\ UNCHANGED <<cfg, run>>
       ELSE /\ cfg' = create_dts_config(SearchRequest(hist.request))
            /\ run' = [run EXCEPT !.rounds = SearchRequest(hist.request).rounds]
            /\ pc' = "engine"
    /\ UNCHANGED <<treeVars, roundVars, aggVars, bp_calls, tasks, hist, gate, call, emit>>

\* main.py: the configuration is written down as a DTSConfig
Construct ==
    /\ pc = "request"
    /\ hist.entry = "main"
    /\ cfg' = DTSConfig(hist.request.init_branches, hist.request.turns_per_branch,
                        hist.request.user_intents_per_branch, hist.request.prune_threshold,
                        hist.request.min_survivors, hist.request.max_concurrency)
    /\ run' = [run EXCEPT !.rounds = hist.request.rounds]
    /\ pc' = "engine"
    /\ UNCHANGED <<treeVars, roundVars, aggVars, bp_calls, tasks, hist, gate, call, emit>>

\* DTSEngine(llm, config): the components create asyncio.Semaphore(max_concurrency),
\* which raises ValueError for a negative value
EngineInit ==
    /\ pc = "engine"
    /\ pc' = IF cfg.max_concurrency < 0 THEN "rejected" ELSE "run"
    /\ gate' = IF cfg.max_concurrency < 0 THEN gate
               ELSE [sem |-> [k \in {"generator", "simulator", "evaluator"} |->
                                 cfg.max_concurrency],
                     calls |-> <<>>]
    /\ UNCHANGED <<treeVars, cfg, roundVars, aggVars, bp_calls, runVars, call, emit>>

\* run(rounds) up to the strategy request of _initialize_tree: the root and
\* the tree are created, the request waits for the semaphore of the generator
RunInit ==
    /\ pc = "run"
    /\ root_id' = 0
    /\ nodes' = TreeCreate(0, DialogueNode(NoId, 0, None, None, <<"U">>))
    /\ IF gate.sem["generator"] > 0
       THEN /\ hist' = [hist EXCEPT !.calls = @ + 1]
            /\ pc' = "strategies"
       ELSE /\ pc' = "blocked"
            /\ UNCHANGED hist
    /\ UNCHANGED <<cfg, roundVars, aggVars, bp_calls, run, tasks, gate, call, emit>>

\* the strategy request returns and the children of the root are created
Strategies ==
    /\ pc = "strategies"
    /\ \E n \in StrategyCounts : nodes' = StrategyTree(n)
    /\ pc' = "round"
    /\ UNCHANGED <<root_id, cfg, roundVars, aggVars, bp_calls, runVars, gate, call, emit>>

NextConfig == HandleSearch \/ Construct \/ EngineInit \/ RunInit \/ Strategies

SpecConfig == InitConfig /\ [][NextConfig]_vars

\* C24 as stated: under a configuration with a non-positive count or a
\* prune_threshold outside 0..10 the run is rejected before it starts: no
\* external call is issued and no tree is built.
InvalidConfigRejected ==
    InvalidKnobs(hist.request) => (hist.calls = 0 /\ nodes = <<>> /\ pc # "round")

\* ============================================================================
\* Specification of one round with forking in which the expansion coroutines
\* finish in any order: the number of children of the one strategy node, the
\* score the judges give each child, the threshold, keep_top_k and
\* min_survivors are drawn in Init and are the same for every order.
\* ============================================================================
InitOrder ==
    /\ IdleAgg /\ IdleGate /\ IdleCall /\ IdleEmit
    /\ pc = "expand"
    /\ root_id = 0
    /\ \E n \in 2..MaxLeaves :
          /\ nodes = ForkChildren(StrategyTree(1), <<1>>, (1 :> n))
          /\ \E t \in ThresholdValues, k \in 0..n, m \in 0..n :
                cfg = [BaseConfig EXCEPT !.prune_threshold = t, !.keep_top_k = k,
                                         !.min_survivors = m, !.user_variability = TRUE,
                                         !.user_intents_per_branch = n]
    /\ tasks = [i \in 1..Len(nodes[1].children) |->
                   ExpansionTask(nodes[1].children[i], "intent", nodes)]
    /\ hist \in [score : [Range(nodes[1].children) -> ScoreValues]]
    /\ run = [round_num |-> 1, rounds |-> 1, total_pruned |-> 0, result |-> NoResult,
              forked |-> TRUE, expandable |-> <<1>>, judging |-> <<>>, results |-> <<>>]
    /\ expanded = <<>> /\ scores = <<>> /\ survivors = <<>>
    /\ bp_calls = NoCalls(nodes)

\* as_completed yields the coroutine that finishes next, whichever it is: its
\* node joins the batch
Complete ==
    /\ pc = "expand"
    /\ \E i \in Awaited(tasks) :
       \E r \in {expand_turn(tasks[i], nodes[tasks[i].node], 1, "R", "u", "a")} :
          /\ tasks' = [tasks EXCEPT ![i] = r.task]
          /\ nodes' = [nodes EXCEPT ![tasks[i].node] = r.node]
          /\ expanded' = Append(expanded, tasks[i].node)
    /\ UNCHANGED <<root_id, cfg, pc, scores, survivors, aggVars, bp_calls, run, hist, gate,
                   call, emit>>

\* DTSEngine.run from "Score branches" to "Prune" on the batch expand_nodes
\* returned: every child gets the score the judges give it
ScoreAndPrune ==
    /\ pc = "expand"
    /\ Awaited(tasks) = {}
    /\ \E sc \in {[id \in Range(expanded) |-> RankedScore(hist.score[id], cfg.prune_threshold)]} :
       \E surv \in {PruneSurvivors(expanded, sc, cfg)} :
          /\ scores' = sc
          /\ survivors' = surv
          /\ nodes' = PruneMark(BackpropagateAll(
                                   WriteScores(nodes, [id \in DOMAIN sc |->
                                                          sc[id].aggregated_score]),
                                   expanded, sc),
                                expanded, surv, sc, cfg)
          /\ run' = [run EXCEPT !.total_pruned = @ + Len(expanded) - Len(surv)]
    /\ pc' = "pruned"
    /\ UNCHANGED <<root_id, cfg, expanded, aggVars, bp_calls, tasks, hist, gate, call, emit>>

NextOrder == Complete \/ ScoreAndPrune

SpecOrder == InitOrder /\ [][NextOrder]_vars

\* C29 as stated: the outcome of a round does not depend on the order in
\* which its expansion coroutines complete: for the same replies the
\* survivors and the status of every node after the prune step are those of
\* the round whose coroutines complete in the order of their creation, also
\* when scores tie under a top-K cap or a min-survivors backfill.
OutcomeOrderIndependent ==
    pc = "pruned" =>
        LET created == SortedIds(Range(expanded))
            same == PruneSurvivors(created, scores, cfg)
        IN  /\ Range(survivors) = Range(same)
            /\ \A id \in Range(expanded) : nodes[id].status = PRUNED <=> id \notin Range(same)

\* ============================================================================
\* Specification of one judging of a node followed by the threshold filter of
\* _prune: the three judge scores are drawn in Init, among them a score that
\* is not a number; the pass threshold of the vote is the prune threshold.
\* ============================================================================
FloatScores == ScoreValues \cup {NAN}

InitVote ==
    /\ IdleTree /\ IdleRound /\ IdleRun /\ IdleGate /\ IdleCall /\ IdleEmit
    /\ pc = "call"
    /\ \E t \in ThresholdValues : cfg = [BaseConfig EXCEPT !.prune_threshold = t]
    /\ agg_in \in [scores : [1..JudgesPerNode -> FloatScores], pass_threshold : ThresholdValues]
    /\ agg_in.pass_threshold = cfg.prune_threshold
    /\ agg_out = NoResult
    /\ bp_calls = NoCalls(nodes)

\* _judge_single aggregates the three scores; _prune filters the one-node
\* batch by scores[n.id].aggregated_score >= threshold
VoteAndFilter ==
    /\ pc = "call"
    /\ agg_out' = judge_single(agg_in.scores, cfg.prune_threshold)
    /\ expanded' = <<root_id>>
    /\ scores' = (root_id :> agg_out')
    /\ survivors' = ThresholdFilter(expanded', scores', cfg)
    /\ pc' = "filtered"
    /\ UNCHANGED <<treeVars, cfg, agg_in, bp_calls, runVars, gate, call, emit>>

NextVote == VoteAndFilter

SpecVote == InitVote /\ [][NextVote]_vars

\* C40 as stated: for every AggregatedScore returned by aggregate_majority_vote
\* passed is true exactly when aggregated_score >= pass_threshold, so the
\* threshold filter of _prune keeps exactly the results whose passed flag is
\* true.
PassedIffMedianPasses ==
    pc = "filtered" =>
        /\ agg_out.passed <=> Ge(agg_out.aggregated_score, agg_out.pass_threshold)
        /\ agg_out.passed <=> root_id \in Range(survivors)

\* ============================================================================
\* Specification of DTSEngine.run in which an expansion coroutine may never
\* finish: the engine's own steps are taken when they are enabled, the turn of
\* an expansion coroutine (ExpandTurn) is under no fairness condition.
\* ============================================================================
\* the total timeout of as_completed fires in a run whose count of faults is
\* at its bound: the timeout is not counted
GatherDeadline ==
    /\ pc = "expand"
    /\ run.forked
    /\ Awaited(tasks) # {}
    /\ hist.faults = MaxFaults
    /\ hist' = [hist EXCEPT !.timed_out = {tasks[i].node : i \in Awaited(tasks)}]
    /\ tasks' = StaleTasks(tasks)
    /\ \E judging \in {ScoringTasks(nodes, expanded, cfg)} :
          run' = [run EXCEPT !.judging = judging, !.results = <<>>]
    /\ pc' = "judge"
    /\ UNCHANGED <<treeVars, cfg, roundVars, aggVars, bp_calls, gate, call, emit>>

EngineStep ==
    \/ RoundLinear \/ RoundForked \/ Intents
    \/ GatherLinear \/ GatherForked \/ GatherTimeout \/ GatherDeadline
    \/ JudgeAbsolute \/ JudgeComparative \/ Merge
    \/ RunPrune \/ Return

NextStuck == EngineStep \/ ExpandTurn

SpecStuck == InitRun /\ [][NextStuck]_vars /\ WF_vars(EngineStep)

\* C31 as stated: an expansion task that never completes cannot block a
\* round: on the linear and on the forked path the gather phase eventually
\* ends and the round proceeds to the evaluation.
StuckTaskCannotBlock == (pc = "expand") ~> (pc = "judge")

\* the part of it that is about the forked path
StuckForkedCannotBlock == (pc = "expand" /\ run.forked) ~> (pc = "judge")

\* ============================================================================
\* Specification of the expansion step of one round, from the choice between
\* linear and forked expansion to the end of the gather: the number of
\* strategy leaves, user_variability and user_intents_per_branch are drawn in
\* Init, the reply to every intent request by the step that consumes it.
\* hist.intents records those replies.
\* ============================================================================
IntentCounts == {1, 2, 3}

InitFork ==
    /\ IdleAgg /\ IdleGate /\ IdleRound /\ IdleCall /\ IdleEmit
    /\ pc = "round"
    /\ root_id = 0
    /\ \E n \in StrategyCounts \ {0} : nodes = StrategyTree(n)
    /\ \E v \in BOOLEAN, k \in IntentCounts :
          cfg = [BaseConfig EXCEPT !.user_variability = v, !.user_intents_per_branch = k]
    /\ run = [round_num |-> 0, rounds |-> 1, total_pruned |-> 0, result |-> NoResult,
              forked |-> FALSE, expandable |-> <<>>, judging |-> <<>>, results |-> <<>>]
    /\ tasks = <<>>
    /\ hist = NoFaults
    /\ bp_calls = NoCalls(nodes)

\* expand_nodes from the gather of the intents to the creation of the tasks
Fork ==
    /\ pc = "intents"
    /\ \E intents \in [Range(run.expandable) -> IntentResponses] :
       \E forked \in {ForkChildren(nodes, run.expandable,
                                    [id \in Range(run.expandable) |->
                                        IF intents[id] = FAIL THEN 0 ELSE intents[id]])} :
         LET children == SortedIds(DOMAIN forked \ DOMAIN nodes)
             fallback_nodes == FallbackNodes(run.expandable, intents)
         IN  /\ hist' = [intents |-> intents] @@ hist
             /\ nodes' = forked
             /\ tasks' = tasks
                          \o [i \in 1..Len(children) |->
                                 ExpansionTask(children[i], "intent", forked)]
                          \o [i \in 1..Len(fallback_nodes) |->
                                 ExpansionTask(fallback_nodes[i], "linear", forked)]
    /\ pc' = "expand"
    /\ UNCHANGED <<root_id, cfg, roundVars, aggVars, bp_calls, run, gate, call, emit>>

NextFork == RoundLinear \/ RoundForked \/ Fork \/ ExpandTurn \/ GatherLinear \/ GatherForked

SpecFork == InitFork /\ [][NextFork]_vars

\* the tasks of ts that work on the node id
TasksOn(ts, id) == {i \in 1..Len(ts) : ts[i].node = id}

IntentFailureFallsBack ==
    [][/\ (pc = "intents" /\ pc' = "expand")
             => \A leaf \in Range(run.expandable) :
                   IF hist'.intents[leaf] \in {FAIL, 0}
                   THEN /\ nodes'[leaf] = nodes[leaf]
                        /\ nodes[leaf].children = <<>>
                        /\ Cardinality(TasksOn(tasks', leaf)) = 1
                        /\ \A i \in TasksOn(tasks', leaf) :
                              tasks'[i].kind = "linear" /\ tasks'[i].state = "running"
                   ELSE /\ Len(nodes'[leaf].children) = hist'.intents[leaf]
                        /\ TasksOn(tasks', leaf) = {}
       /\ (pc = "expand" /\ run.forked /\ pc' = "judge")
             => \A leaf \in Range(run.expandable) :
                   hist.intents[leaf] \in {FAIL, 0}
                      => \/ leaf \in Range(expanded')
                         \/ \E i \in TasksOn(tasks, leaf) : tasks[i].state = "raised"
       /\ (pc = "intents" => pc' = "expand")
       /\ pc' # "raised"]_vars

\* a forked round has ended in which the intent request of leaf 1 raised and
\* leaf 2 got two children: leaf 1 and the children are the batch
IntentFailureWitness ==
    /\ pc = "judge"
    /\ run.forked
    /\ run.expandable = <<1, 2>>
    /\ hist.intents[1] = FAIL /\ hist.intents[2] = 2
    /\ nodes[1].children = <<>> /\ Len(nodes[1].messages) > 1
    /\ Range(expanded) = {1} \cup Range(nodes[2].children)

\* ============================================================================
\* Specification of the grouping of evaluate_comparative: a tree of up to
\* MaxNodes nodes below the root and a batch of two or more of its leaves, in
\* ascending or descending order of creation, are drawn in Init.
\* hist.ranking lists the groups a ranking call is issued for.
\* ============================================================================
Leaves(ns) == {id \in DOMAIN ns : ns[id].children = <<>>}

InitGroup ==
    /\ IdleAgg /\ IdleCfg /\ IdleGate /\ IdleCall /\ IdleEmit
    /\ pc = "score"
    /\ root_id = 0
    /\ \E n \in 2..MaxNodes :
       \E parent \in [1..n -> 0..(n - 1)] :
          /\ \A i \in 1..n : parent[i] < i
          /\ nodes = TreeOf(parent, n)
    /\ \E batch \in SUBSET Leaves(nodes), descending \in BOOLEAN :
          /\ Cardinality(batch) >= 2
          /\ expanded = IF descending THEN Reversed(SortedIds(batch)) ELSE SortedIds(batch)
    /\ scores = <<>> /\ survivors = <<>>
    /\ run = [round_num |-> 1, rounds |-> 1, total_pruned |-> 0, result |-> NoResult,
              forked |-> FALSE, expandable |-> <<>>, judging |-> <<>>, results |-> <<>>]
    /\ tasks = <<>>
    /\ hist = [ranking |-> <<>>]
    /\ bp_calls = NoCalls(nodes)

\* evaluate_comparative up to its gather: the tasks are created; each
\* _judge_group_comparative issues the ranking call of its group
CreateJudgeTasks ==
    /\ pc = "score"
    /\ \E judging \in {ScoringTasks(nodes, expanded, cfg)} :
          /\ run' = [run EXCEPT !.judging = judging]
          /\ hist' = [ranking |-> [k \in 1..Cardinality({j \in 1..Len(judging) :
                                                           judging[j].kind = "group"}) |->
                                      judging[CHOOSE j \in 1..Len(judging) :
                                                 /\ judging[j].kind = "group"
                                                 /\ Cardinality({i \in 1..j :
                                                        judging[i].kind = "group"}) = k].group]]
    /\ pc' = "grouped"
    /\ UNCHANGED <<treeVars, cfg, roundVars, aggVars, bp_calls, tasks, gate, call, emit>>

NextGroup == CreateJudgeTasks

SpecGroup == InitGroup /\ [][NextGroup]_vars

\* the batch nodes whose parent is p
Siblings(ns, batch, p) == {id \in Range(batch) : ns[id].parent_id = p}

\* C37: in comparative scoring of a batch of two or more nodes the batch is
\* partitioned by parent id: every parent of a batch node has exactly one
\* judging task, whose group is the batch nodes of that parent; exactly one
\* ranking call is issued for each parent with two or more batch nodes, and
\* it holds nodes of that parent only; the only batch node of its parent is
\* judged by _judge_single, without a ranking call.
GroupedByParent ==
    pc = "grouped" =>
        LET judging == run.judging
            parents == {nodes[id].parent_id : id \in Range(expanded)}
        IN  /\ Len(judging) = Cardinality(parents)
            /\ \A p \in parents :
                  Cardinality({k \in 1..Len(judging) :
                                  Range(judging[k].group) = Siblings(nodes, expanded, p)}) = 1
            /\ \A k \in 1..Len(judging) :
                  /\ NoRepeat(judging[k].group)
                  /\ judging[k].kind = IF Len(judging[k].group) >= 2 THEN "group" ELSE "single"
            /\ Len(hist.ranking) = Cardinality({p \in parents :
                                                  Cardinality(Siblings(nodes, expanded, p)) >= 2})
            /\ \A p \in parents :
                  Cardinality({k \in 1..Len(hist.ranking) :
                                  Range(hist.ranking[k]) = Siblings(nodes, expanded, p)})
                     = IF Cardinality(Siblings(nodes, expanded, p)) >= 2 THEN 1 ELSE 0

\* a batch of three: two siblings, ranked together, and a node of another
\* parent, judged alone
GroupedWitness ==
    /\ pc = "grouped"
    /\ Len(expanded) = 3
    /\ Len(hist.ranking) = 1
    /\ Len(hist.ranking[1]) = 2
    /\ \E k \in 1..Len(run.judging) :
          /\ run.judging[k].kind = "single"
          /\ nodes[run.judging[k].group[1]].parent_id # nodes[hist.ranking[1][1]].parent_id

\* ============================================================================
\* Specification of a run of three rounds of two turns with user variability
\* on and one strategy. The first round forks into the intents generate_intents returns;
\* in the later rounds generate_intents raises or returns nothing, so that
\* the tree stays at four nodes. The failures of generate_intents are not
\* counted in hist.faults here.
\* ============================================================================
InitLate ==
    /\ IdleAgg /\ IdleGate /\ IdleRound /\ IdleCall /\ IdleEmit
    /\ pc = "round"
    /\ root_id = 0
    /\ nodes = StrategyTree(1)
    /\ \E m \in {"absolute", "comparative"} :
          cfg = [BaseConfig EXCEPT !.scoring_mode = m, !.user_variability = TRUE,
                                   !.turns_per_branch = 2]
    /\ run = [round_num |-> 0, rounds |-> 3, total_pruned |-> 0, result |-> NoResult,
              forked |-> FALSE, expandable |-> <<>>, judging |-> <<>>, results |-> <<>>]
    /\ tasks = <<>>
    /\ hist = NoFaults
    /\ bp_calls = NoCalls(nodes)

\* expand_nodes from the gather of the intents to the creation of the tasks
ForkFirst ==
    /\ pc = "intents"
    /\ \E intents \in [Range(run.expandable) -> IntentResponses] :
       \E forked \in {ForkChildren(nodes, run.expandable,
                                    [id \in Range(run.expandable) |->
                                        IF intents[id] = FAIL THEN 0 ELSE intents[id]])} :
         LET children == SortedIds(DOMAIN forked \ DOMAIN nodes)
             fallback_nodes == FallbackNodes(run.expandable, intents)
         IN  /\ run.round_num > 1 => \A id \in Range(run.expandable) : intents[id] \in {FAIL, 0}
             /\ nodes' = forked
             /\ tasks' = tasks
                          \o [i \in 1..Len(children) |->
                                 ExpansionTask(children[i], "intent", forked)]
                          \o [i \in 1..Len(fallback_nodes) |->
                                 ExpansionTask(fallback_nodes[i], "linear", forked)]
    /\ pc' = "expand"
    /\ UNCHANGED <<root_id, cfg, roundVars, aggVars, bp_calls, run, hist, gate, call, emit>>

NextLate ==
    \/ RoundForked \/ ForkFirst \/ ExpandTurn
    \/ GatherForked \/ GatherTimeout
    \/ JudgeAbsolute \/ JudgeComparative \/ Merge
    \/ RunPrune \/ Return

SpecLate == InitLate /\ [][NextLate]_vars

\* the node is in the work of the current round: selected for expansion, the
\* node of one of the round's coroutines, in the batch or in a judging task
InRound(id) ==
    \/ id \in Range(run.expandable)
    \/ id \in Range(expanded)
    \/ \E i \in 1..Len(tasks) : ~tasks[i].stale /\ tasks[i].node = id
    \/ \E j \in 1..Len(run.judging) : id \in Range(run.judging[j].group)

\* C39: a node whose status is PRUNED, TERMINAL or ERROR has no children,
\* and once the round in which it left ACTIVE is over it is not selected for
\* expansion or evaluation again and its record (messages, children, status,
\* statistics) does not change.
NonActiveFrozen ==
    [][ /\ \A id \in DOMAIN nodes' : nodes'[id].status # ACTIVE => nodes'[id].children = <<>>
        /\ \A id \in DOMAIN nodes :
              (nodes[id].status # ACTIVE /\ (pc = "round" \/ ~InRound(id)) /\ pc' # "done")
                 => /\ nodes'[id] = nodes[id]
                    /\ ~InRound(id)' ]_vars
====
